---- MODULE Spec2Model ----
(***************************************************************************)
(* Confidential-asset transfer demo on Bitcoin Cash: RPA one-time keys,    *)
(* the Sigma range proof, the CTv1 amount envelope and the covenant spend. *)
(*                                                                         *)
(* Scaling.  The curve is a miniature of secp256k1: a curve y^2 = x^3 + b  *)
(* of prime order n = 13 over F_19.  A point is written as its index k     *)
(* (the point k*G), 0 being Point.ZERO; the compressed encoding is the     *)
(* real one (parity prefix 02/03, then x).  Widths are scaled: a point is  *)
(* 2 bytes (33 in the source), a scalar 1 byte (32), a uint64 2 bytes (8), *)
(* a SHA-256 digest 4 bytes (32), a HASH160 digest 3 bytes (20), and the   *)
(* range proof has BITS = 2 bits (64), so that 2^BITS < n as in the source.*)
(* Hash functions are stand-ins: polynomial checksums of the input bytes.  *)
(***************************************************************************)
EXTENDS Integers, Sequences, FiniteSets, TLC

VARIABLES
    zkIn,       \* inputs of buildAmountProofEnvelope: value, zkSeed, ephemPub33, assetId32, outIndex
    zkPc,       \* position of the envelope harness
    zkOut,      \* what buildAmountProofEnvelope returned (or that it threw)
    wire,       \* the bytes handed to the verifier / parser
    wireKind,   \* how wire was obtained from the built envelope
    wirePos,    \* the byte position that was changed, 0 if none
    verdict,    \* result of the verifier on wire: "none", "true", "false", "throw"
    parsed,     \* result of parseProofEnvelope on wire
    rpa,        \* one RPA derivation: its inputs, the sender's intent, the receiver's key
    flow,       \* demoSilentTransfer: its position, wallets, values held, and the log of stages
    chain,      \* what the network reports: the covenant output, the return output
    codec,      \* one buildProofEnvelope call from its fields, and what the parser returned
    pair,       \* two transfers to one receiver: their amounts, outpoints and derived seeds
    script,     \* one redeem script: how it was made, what the extractors returned
    ped,        \* pedersen.js: its generator caches and the calls made so far
    psbt,       \* a PSBT-like object: its outputs' proprietary entries, the last call
    pool,       \* the pool hash-fold demo: the covenant UTXO, its spends, the bytecode cache
    plan        \* one fee and change computation of buildBobReturnTx and what became of it

zkVars == <<zkIn, zkPc, zkOut, wire, wireKind, wirePos, verdict, parsed>>
flowVars == <<flow, chain>>
extVars == <<psbt, pool, plan>>

libVars == <<codec, pair, script, ped, psbt, pool, plan>>

vars == <<zkIn, zkPc, zkOut, wire, wireKind, wirePos, verdict, parsed, rpa, flow, chain,
          codec, pair, script, ped, psbt, pool, plan>>

(***************************************************************************)
(* Bounds of the model                                                     *)
(***************************************************************************)
MaxSeed == 4        \* zkSeed values tried: <<s, s, 7, 7>>, s in 0..MaxSeed
MaxOutIndex == 1    \* output indexes tried: 0..MaxOutIndex
MaxExtra == 1       \* trailing bytes appended to an envelope: 1..MaxExtra bytes
MaxKey == 3         \* private keys tried: 1..MaxKey
MaxIndex == 1       \* RPA indexes tried: 0..MaxIndex
MaxRate == 2        \* fee rates tried: 1..MaxRate

(***************************************************************************)
(* Bytes                                                                   *)
(***************************************************************************)
Byte == 0..255

RECURSIVE Pow2(_)
Pow2(k) == IF k = 0 THEN 1 ELSE 2 * Pow2(k - 1)

\* b with bit k flipped (b ^ (1 << k))
XorBit(b, k) == IF (b \div Pow2(k)) % 2 = 1 THEN b - Pow2(k) ELSE b + Pow2(k)

\* Uint8Array.prototype.slice(start, end): clamped to the array, never throws
Slice(s, start, end) ==
    LET e == IF end > Len(s) THEN Len(s) ELSE end
    IN  IF start >= e THEN << >> ELSE SubSeq(s, start + 1, e)

RECURSIVE BytesToBigInt(_)
BytesToBigInt(bytes) ==
    IF bytes = << >> THEN 0
    ELSE BytesToBigInt(SubSeq(bytes, 1, Len(bytes) - 1)) * 256 + bytes[Len(bytes)]

ScalarLen == 1
PointLen == 2
U64Len == 2
HashLen == 4
Hash160Len == 3

\* bigIntToBytes(x, 32): fixed-width big-endian
BigIntToBytes(x) == << x % 256 >>

\* uint64le(x): fixed-width little-endian
Uint64le(x) == << x % 256, (x \div 256) % 256 >>

\* CompactSize: smallest-first variable-length integer
VarInt(len) ==
    IF len < 253 THEN << len >>
    ELSE << 253, len % 256, (len \div 256) % 256 >>

\* decodeVarInt(bytes, off) -> {value, length}; off is 0-based. A read past the
\* end of the array is reported as ok = FALSE.
DecodeVarInt(bytes, off) ==
    IF off >= Len(bytes) THEN [ok |-> FALSE, value |-> 0, length |-> 0]
    ELSE LET first == bytes[off + 1]
         IN  IF first < 253 THEN [ok |-> TRUE, value |-> first, length |-> 1]
             ELSE IF first = 253
                  THEN IF off + 3 > Len(bytes)
                       THEN [ok |-> FALSE, value |-> 0, length |-> 0]
                       ELSE [ok |-> TRUE,
                             value |-> bytes[off + 2] + 256 * bytes[off + 3],
                             length |-> 3]
                  ELSE \* 4- and 8-byte forms: far beyond every length of the model
                       [ok |-> FALSE, value |-> 0, length |-> 0]

\* vbytes(u8) = varInt(u8.length) || u8
Vbytes(u8) == VarInt(Len(u8)) \o u8

(***************************************************************************)
(* Hash stand-ins                                                          *)
(***************************************************************************)
RECURSIVE Poly(_, _, _)
Poly(bytes, base, modulus) ==
    IF bytes = << >> THEN Len(bytes) + 1
    ELSE (Poly(SubSeq(bytes, 1, Len(bytes) - 1), base, modulus) * base
            + bytes[Len(bytes)] + 1) % modulus

Sha256(bytes) ==
    << Poly(bytes, 31, 251), Poly(bytes, 17, 241), Poly(bytes, 7, 239), Poly(bytes, 3, 233) >>

\* hash256 / computeProofHash: sha256(sha256(bytes))
ComputeProofHash(bytes) == Sha256(Sha256(bytes))

(***************************************************************************)
(* The curve (noble-curves secp256k1, in miniature)                        *)
(***************************************************************************)
n == 13
XCoord == << 4, 18, 6, 9, 12, 8, 8, 12, 9, 6, 18, 4 >>
Parity == << 3, 2, 3, 2, 2, 2, 3, 3, 3, 2, 3, 2 >>

ZERO == 0
G == 1
PAdd(P, Q) == (P + Q) % n
PSub(P, Q) == (P + n - Q) % n
\* Point.multiply(s): noble throws "invalid scalar" unless 1 <= s < n
ValidScalar(s) == 1 <= s /\ s < n
PMul(P, s) == (P * s) % n

\* the big-endian value of bytes, reduced mod m as it is accumulated
RECURSIVE BytesMod(_, _)
BytesMod(bytes, m) ==
    IF bytes = << >> THEN 0
    ELSE (BytesMod(SubSeq(bytes, 1, Len(bytes) - 1), m) * 256 + bytes[Len(bytes)]) % m

\* Fn.fromBytes(digest): the digest as a scalar mod n
FnFromBytes(d) == BytesMod(d, n)

\* Point.toBytes(true); throws on Point.ZERO
PointToBytes(P) == << Parity[P], XCoord[P] >>

\* Point.fromBytes(bytes): the point, or -1 when noble throws
PointFromBytes(bytes) ==
    IF Len(bytes) # PointLen THEN -1
    ELSE LET hits == { k \in 1..(n - 1) : Parity[k] = bytes[1] /\ XCoord[k] = bytes[2] }
         IN  IF hits = {} THEN -1 ELSE CHOOSE k \in hits : TRUE

\* the two tries of hashToPoint for one x: prefix 02, then prefix 03; -1 when
\* neither is a point
LiftX(x) ==
    IF PointFromBytes(<< 2 >> \o x) # -1 THEN PointFromBytes(<< 2 >> \o x)
    ELSE PointFromBytes(<< 3 >> \o x)

\* hashToPoint(tag, data): try-and-increment over ctr, both parities
RECURSIVE HashToPointFrom(_, _, _)
HashToPointFrom(tagBytes, dataBytes, ctr) ==
    IF ctr >= 255 THEN -1
    ELSE LET P == LiftX(<< BytesMod(Sha256(tagBytes \o dataBytes \o << ctr >>), 32) >>)
         IN  IF P # -1 THEN P ELSE HashToPointFrom(tagBytes, dataBytes, ctr + 1)

TAG_H == << 67, 84, 47, 72 >>        \* 'BCH-CT/H', shortened
\* getH(): the second generator
H == HashToPointFrom(TAG_H, << >>, 0)

(***************************************************************************)
(* Sigma range proof (zk.js)                                               *)
(***************************************************************************)
BITS == 2

BitOf(v, i) == (v \div Pow2(i)) % 2

\* Point.Fn.fromBytes(sha256(concat(seedBytes, uint64le(i), uint64le(purpose))))
SeedScalar(seedBytes, i, purpose) ==
    FnFromBytes(Sha256(seedBytes \o Uint64le(i) \o Uint64le(purpose)))

\* C_i = bit ? H.add(G.multiply(ri)) : G.multiply(ri)
BitCommitment(v, seedBytes, i) ==
    LET ri == SeedScalar(seedBytes, i, 0)
    IN  IF BitOf(v, i) = 1 THEN PAdd(H, PMul(G, ri)) ELSE PMul(G, ri)

\* r = (r + (1n << i) * ri) % n over the bits below `bits`
RECURSIVE AggregateBlinding(_, _)
AggregateBlinding(seedBytes, bits) ==
    IF bits = 0 THEN 0
    ELSE (AggregateBlinding(seedBytes, bits - 1)
            + Pow2(bits - 1) * SeedScalar(seedBytes, bits - 1, 0)) % n

\* sum over i < bits of commitments[i].multiply(1n << i)
RECURSIVE AggregateCommitments(_, _)
AggregateCommitments(commitments, bits) ==
    IF bits = 0 THEN ZERO
    ELSE PAdd(AggregateCommitments(commitments, bits - 1),
              PMul(commitments[bits], Pow2(bits - 1)))

\* Fiat-Shamir challenge of one bit: Fn.fromBytes(sha256(A0 || A1 || C_i))
Challenge(A0, A1, Ci) ==
    FnFromBytes(Sha256(PointToBytes(A0) \o PointToBytes(A1) \o PointToBytes(Ci)))

\* Asim = G.multiply(zsim).subtract(Dsim.multiply(esim)), Dsim the statement
\* of the branch that is simulated: D0 = C_i when the bit is 1, D1 = C_i - H
\* when it is 0
SimulatedA(real, Ci, esim, zsim) ==
    PSub(PMul(G, zsim), PMul(IF real = 1 THEN Ci ELSE PSub(Ci, H), esim))

\* the responses of the OR-proof once A0 and A1 are fixed:
\* e = H(A0 || A1 || C_i), ereal = e - esim, zreal = kreal + ereal * ri
BitResponses(real, ri, Ci, kreal, esim, zsim, A0, A1) ==
    LET points == A0 # ZERO /\ A1 # ZERO /\ Ci # ZERO       \* toBytes(true) of each
        e == IF points THEN Challenge(A0, A1, Ci) ELSE 0
        ereal == (e - esim + n) % n
        zreal == (kreal + ereal * ri) % n
    IN  [A0 |-> A0, A1 |-> A1,
         e0 |-> IF real = 0 THEN ereal ELSE esim,
         z0 |-> IF real = 0 THEN zreal ELSE zsim,
         e1 |-> IF real = 1 THEN ereal ELSE esim,
         z1 |-> IF real = 1 THEN zreal ELSE zsim,
         thrown |-> ~(ValidScalar(ri) /\ ValidScalar(kreal) /\ ValidScalar(zsim)
                      /\ ValidScalar(esim) /\ points)]

\* the OR-proof of a bit from its scalars: Areal = G.multiply(kreal) on the
\* real branch, Asim on the other
BitProofFrom(real, ri, Ci, kreal, esim, zsim) ==
    BitResponses(real, ri, Ci, kreal, esim, zsim,
        IF real = 0 THEN PMul(G, kreal) ELSE SimulatedA(real, Ci, esim, zsim),
        IF real = 0 THEN SimulatedA(real, Ci, esim, zsim) ELSE PMul(G, kreal))

\* The OR-proof of bit i (second loop of generateSigmaRangeProof). thrown is
\* TRUE when one of the noble calls of the two loops throws for this bit.
BitProof(v, seedBytes, i) ==
    BitProofFrom(BitOf(v, i), SeedScalar(seedBytes, i, 0), BitCommitment(v, seedBytes, i),
                 SeedScalar(seedBytes, i, 1), SeedScalar(seedBytes, i, 2),
                 SeedScalar(seedBytes, i, 3))

\* the object generateSigmaRangeProof returns, from what its two loops
\* computed: C = H.multiply(v).add(G.multiply(r)), the aggregation check
ProofObject(v, commitments, r, C, proofs) ==
    [ok |-> /\ v >= 0 /\ v < Pow2(BITS)
            /\ ValidScalar(v)               \* H.multiply(vBig)
            /\ ValidScalar(r)               \* G.multiply(r)
            /\ \A i \in 1..BITS : ~proofs[i].thrown
            /\ AggregateCommitments(commitments, BITS) = C
            /\ C # ZERO,                    \* C.toBytes(true)
     C |-> C, commitments |-> commitments, proofs |-> proofs]

\* generateSigmaRangeProof(v, seedBytes): ok = FALSE when it throws
GenerateSigmaRangeProof(v, seedBytes) ==
    ProofObject(v, [i \in 1..BITS |-> BitCommitment(v, seedBytes, i - 1)],
                AggregateBlinding(seedBytes, BITS),
                PAdd(PMul(H, v), PMul(G, AggregateBlinding(seedBytes, BITS))),
                [i \in 1..BITS |-> BitProof(v, seedBytes, i - 1)])

RECURSIVE ConcatAll(_)
ConcatAll(parts) ==
    IF parts = << >> THEN << >> ELSE Head(parts) \o ConcatAll(Tail(parts))

\* serializeProof: C || C_i * BITS || [A0 || A1 || e0 || z0 || e1 || z1] * BITS
SerializeProof(proof) ==
    PointToBytes(proof.C)
    \o ConcatAll([i \in 1..BITS |-> PointToBytes(proof.commitments[i])])
    \o ConcatAll([i \in 1..BITS |->
            PointToBytes(proof.proofs[i].A0) \o PointToBytes(proof.proofs[i].A1)
            \o BigIntToBytes(proof.proofs[i].e0) \o BigIntToBytes(proof.proofs[i].z0)
            \o BigIntToBytes(proof.proofs[i].e1) \o BigIntToBytes(proof.proofs[i].z1)])

TupleLen == 2 * PointLen + 4 * ScalarLen
ProofLen == PointLen * (1 + BITS) + BITS * TupleLen

\* deserializeProof(bytes): ok = FALSE when a Point.fromBytes throws
DeserializeProof(bytes) ==
    LET PointAt(pos) == PointFromBytes(Slice(bytes, pos, pos + PointLen))
        ScalarAt(pos) == BytesToBigInt(Slice(bytes, pos, pos + ScalarLen))
        base(i) == PointLen * (1 + BITS) + (i - 1) * TupleLen
        C == PointAt(0)
        commitments == [i \in 1..BITS |-> PointAt(PointLen * i)]
        proofs == [i \in 1..BITS |->
            [A0 |-> PointAt(base(i)),
             A1 |-> PointAt(base(i) + PointLen),
             e0 |-> ScalarAt(base(i) + 2 * PointLen),
             z0 |-> ScalarAt(base(i) + 2 * PointLen + ScalarLen),
             e1 |-> ScalarAt(base(i) + 2 * PointLen + 2 * ScalarLen),
             z1 |-> ScalarAt(base(i) + 2 * PointLen + 3 * ScalarLen)]]
    IN  [ok |-> /\ C # -1
                /\ \A i \in 1..BITS : commitments[i] # -1
                /\ \A i \in 1..BITS : proofs[i].A0 # -1 /\ proofs[i].A1 # -1,
         C |-> C, commitments |-> commitments, proofs |-> proofs]

\* The per-bit checks of verifySigmaRangeProof, in the order of the code
VerifyBit(p, Ci) ==
    IF (p.e0 + p.e1) % n # Challenge(p.A0, p.A1, Ci) THEN "false"
    ELSE IF ~ValidScalar(p.z0 % n) THEN "throw"        \* G.multiply(p.z0 % n)
    ELSE IF ~ValidScalar(p.e0 % n) THEN "throw"        \* D0.multiply(p.e0 % n)
    ELSE IF PMul(G, p.z0 % n) # PAdd(p.A0, PMul(Ci, p.e0 % n)) THEN "false"
    ELSE IF ~ValidScalar(p.z1 % n) THEN "throw"        \* G.multiply(p.z1 % n)
    ELSE IF ~ValidScalar(p.e1 % n) THEN "throw"        \* D1.multiply(p.e1 % n)
    ELSE IF PMul(G, p.z1 % n) # PAdd(p.A1, PMul(PSub(Ci, H), p.e1 % n)) THEN "false"
    ELSE "true"

RECURSIVE VerifyBitsFrom(_, _)
VerifyBitsFrom(proof, i) ==
    IF i > BITS THEN "true"
    ELSE LET res == VerifyBit(proof.proofs[i], proof.commitments[i])
         IN  IF res # "true" THEN res ELSE VerifyBitsFrom(proof, i + 1)

\* verifySigmaRangeProof(proof): "true", "false", or "throw" when noble throws
VerifySigmaRangeProof(proof) ==
    IF AggregateCommitments(proof.commitments, BITS) # proof.C THEN "false"
    ELSE VerifyBitsFrom(proof, 1)

(***************************************************************************)
(* CTv1 amount envelope (transcript.js, zk.js)                             *)
(***************************************************************************)
MAGIC == << 67, 84, 118, 49 >>          \* 'CTv1'
PROTOCOL_TAG == << 66, 67, 72 >>        \* 'BCH-CT/Sigma64-v1', shortened

\* buildProofEnvelope: "CTv1" | vbytes(header) | vbytes(coreProofBytes)
BuildProofEnvelope(protocolTag, rangeBits, ephemPub33, H33, assetId32, outIndex, extraCtx, coreProofBytes) ==
    LET header == Vbytes(protocolTag) \o Uint64le(rangeBits) \o Vbytes(ephemPub33)
                  \o Vbytes(H33) \o Vbytes(assetId32) \o Uint64le(outIndex)
                  \o Vbytes(extraCtx)
    IN  MAGIC \o Vbytes(header) \o Vbytes(coreProofBytes)

NoParse == [st |-> "none", header |-> << >>, core |-> << >>]
ParseThrew == [st |-> "throw", header |-> << >>, core |-> << >>]

\* parseProofEnvelope(envelope) -> {header, core}, or st = "throw"
ParseProofEnvelope(envelope) ==
    IF Len(envelope) < Len(MAGIC) THEN ParseThrew
    ELSE IF SubSeq(envelope, 1, Len(MAGIC)) # MAGIC THEN ParseThrew
    ELSE LET off0 == Len(MAGIC)
             hdrLenInfo == DecodeVarInt(envelope, off0)
             off1 == off0 + hdrLenInfo.length
             header == Slice(envelope, off1, off1 + hdrLenInfo.value)
             off2 == off1 + hdrLenInfo.value
             coreLenInfo == DecodeVarInt(envelope, off2)
             off3 == off2 + coreLenInfo.length
             core == Slice(envelope, off3, off3 + coreLenInfo.value)
         IN  IF ~hdrLenInfo.ok THEN ParseThrew
             ELSE IF ~coreLenInfo.ok THEN ParseThrew
             ELSE [st |-> "ok", header |-> header, core |-> core]

NoBuild == [st |-> "none", envelope |-> << >>, proofHash |-> << >>,
            coreProofBytes |-> << >>, coreHashBytes |-> << >>, commitmentC33 |-> << >>]

\* what buildAmountProofEnvelope returns once the envelope is assembled
AmountProofResult(envelope, coreProofBytes, C) ==
    [st |-> "ok",
     envelope |-> envelope,
     proofHash |-> ComputeProofHash(envelope),
     coreProofBytes |-> coreProofBytes,
     coreHashBytes |-> ComputeProofHash(coreProofBytes),
     commitmentC33 |-> PointToBytes(C)]

\* buildAmountProofEnvelope after generateSigmaRangeProof: serialize the proof,
\* wrap it in the envelope
EnvelopeOfProof(proof, ephemPub33, assetId32, outIndex, extraCtx, coreProofBytes) ==
    IF ~proof.ok THEN [NoBuild EXCEPT !.st = "throw"]
    ELSE AmountProofResult(
             BuildProofEnvelope(PROTOCOL_TAG, BITS, ephemPub33, PointToBytes(H), assetId32,
                                outIndex, extraCtx, coreProofBytes),
             coreProofBytes, proof.C)

\* buildAmountProofEnvelope({value, zkSeed, ephemPub33, assetId32, outIndex, extraCtx})
BuildAmountProofEnvelope(value, zkSeed, ephemPub33, assetId32, outIndex, extraCtx) ==
    IF ~(/\ value >= 0 /\ value < Pow2(BITS)
         /\ Len(zkSeed) = HashLen
         /\ Len(ephemPub33) = PointLen)
    THEN [NoBuild EXCEPT !.st = "throw"]
    ELSE EnvelopeOfProof(GenerateSigmaRangeProof(value, zkSeed), ephemPub33, assetId32,
                         outIndex, extraCtx,
                         SerializeProof(GenerateSigmaRangeProof(value, zkSeed)))

\* verifyAmountProofEnvelope(envelope): parse, deserialize the core, verify it
VerifyAmountProofEnvelope(envelope) ==
    LET p == ParseProofEnvelope(envelope)
    IN  IF p.st # "ok" THEN "throw"
        ELSE LET proof == DeserializeProof(p.core)
             IN  IF ~proof.ok THEN "throw" ELSE VerifySigmaRangeProof(proof)

\* verifySigmaRangeProof(generateSigmaRangeProof(v, seedBytes))
GenerateThenVerify(v, seedBytes) ==
    LET proof == GenerateSigmaRangeProof(v, seedBytes)
    IN  IF ~proof.ok THEN "throw" ELSE VerifySigmaRangeProof(proof)

(***************************************************************************)
(* Keys and HASH160                                                        *)
(***************************************************************************)
\* _hash160(bytes) = ripemd160(sha256(bytes))
Hash160(bytes) ==
    LET d == Sha256(bytes) IN << Poly(d, 13, 251), Poly(d, 29, 241), Poly(d, 5, 239) >>

\* secp256k1.getPublicKey(priv, true); throws unless 1 <= priv < n
GetPublicKey(priv) == PointToBytes(PMul(G, priv))

(***************************************************************************)
(* RPA one-time keys (derivation.js)                                       *)
(***************************************************************************)
RPA_MODE_CONF_ASSET == "conf-asset"
RPA_MODE_STEALTH_P2PKH == "stealth-p2pkh"
RPA_MODE_PQ_VAULT == "pq-vault"
RpaModes == { RPA_MODE_CONF_ASSET, RPA_MODE_STEALTH_P2PKH, RPA_MODE_PQ_VAULT }

\* the ECDH value both sides reach: sha256 of the compressed shared point
RpaSharedSecret(priv, pubPoint) == Sha256(PointToBytes(PMul(pubPoint, priv)))

\* session keys that leave the output index out of the hash
DeriveRpaSessionKeysNoVout(sharedSecret, prevoutTxid, prevoutN) ==
    LET Kdf(label) == Sha256(<< label >> \o sharedSecret \o prevoutTxid)
    IN  [sessionKey |-> Kdf(1), amountKey |-> Kdf(2), memoKey |-> Kdf(3), zkSeed |-> Kdf(4)]

\* session keys: one domain-separated hash per label over (secret, outpoint)
DeriveRpaSessionKeys(sharedSecret, prevoutTxid, prevoutN) ==
    LET Kdf(label) == Sha256(<< label >> \o sharedSecret \o prevoutTxid \o << prevoutN >>)
    IN  [sessionKey |-> Kdf(1), amountKey |-> Kdf(2), memoKey |-> Kdf(3), zkSeed |-> Kdf(4)]

\* the offset added to the receiver's spend key: a scalar from the session
\* key and the index
RpaOffset(sharedSecret, prevoutTxid, prevoutN, index) ==
    FnFromBytes(Sha256(DeriveRpaSessionKeys(sharedSecret, prevoutTxid, prevoutN).sessionKey
                       \o << index >>))

NoIntent == [ok |-> FALSE, childPubkey |-> << >>, childHash160 |-> << >>,
             zkSeed |-> << >>, mode |-> "none", senderPub33 |-> << >>]

\* deriveRpaLockIntent({mode, senderPrivBytes, receiver pubs, prevoutTxidHex,
\* prevoutN, index}): the sender's side; ok = FALSE when it throws
DeriveRpaLockIntent(mode, senderPriv, scanPub33, spendPub33, prevoutTxid, prevoutN, index) ==
    LET Q == PointFromBytes(scanPub33)
        R == PointFromBytes(spendPub33)
    IN  IF ~ValidScalar(senderPriv) \/ Q = -1 \/ R = -1 THEN NoIntent
        ELSE LET sharedSecret == RpaSharedSecret(senderPriv, Q)
                 t == RpaOffset(sharedSecret, prevoutTxid, prevoutN, index)
                 child == PAdd(R, PMul(G, t))
             IN  IF child = ZERO THEN NoIntent
                 ELSE [ok |-> TRUE,
                       childPubkey |-> PointToBytes(child),
                       childHash160 |-> Hash160(PointToBytes(child)),
                       zkSeed |-> DeriveRpaSessionKeys(sharedSecret, prevoutTxid,
                                                       prevoutN).zkSeed,
                       mode |-> mode,
                       senderPub33 |-> GetPublicKey(senderPriv)]

\* a receiver that adds the offset to its scan key instead of its spend key
DeriveRpaOneTimePrivReceiverScanKey(scanPriv, spendPriv, senderPub33, prevoutTxid, prevoutN, index) ==
    LET P == PointFromBytes(senderPub33)
    IN  IF ~ValidScalar(scanPriv) \/ ~ValidScalar(spendPriv) \/ P = -1 THEN 0
        ELSE (scanPriv + RpaOffset(RpaSharedSecret(scanPriv, P), prevoutTxid,
                                   prevoutN, index)) % n

\* deriveRpaOneTimePrivReceiver(scanPriv, spendPriv, senderPub33, prevoutTxidHex,
\* prevoutN, index) -> oneTimePriv; 0 stands for a throw (no valid key)
DeriveRpaOneTimePrivReceiver(scanPriv, spendPriv, senderPub33, prevoutTxid, prevoutN, index) ==
    LET P == PointFromBytes(senderPub33)
    IN  IF ~ValidScalar(scanPriv) \/ ~ValidScalar(spendPriv) \/ P = -1 THEN 0
        ELSE (spendPriv + RpaOffset(RpaSharedSecret(scanPriv, P), prevoutTxid,
                                    prevoutN, index)) % n

(***************************************************************************)
(* Amount encryption and the ephemeral key                                 *)
(***************************************************************************)
\* deriveEphemeralPriv: sha256(basePub33 || uint64le(amount) || txid || uint64le(vout)),
\* used as a private key
EphemeralDigestNoVout(basePub33, amount, txid, vout) ==
    Sha256(basePub33 \o Uint64le(amount) \o txid)

EphemeralDigest(basePub33, amount, txid, vout) ==
    Sha256(basePub33 \o Uint64le(amount) \o txid \o Uint64le(vout))

DeriveEphemeralPriv(basePub33, amount, txid, vout) ==
    FnFromBytes(EphemeralDigest(basePub33, amount, txid, vout))

\* encryptAmount(ephemPriv, receiverPub33, amount): the amount under the ECDH key
EncryptAmount(ephemPriv, receiverPub33, amount) ==
    [key |-> RpaSharedSecret(ephemPriv, PointFromBytes(receiverPub33)), v |-> amount]

\* decryptAmount(priv, ephemPub33, envelope) then JSON.parse(..).v; -1 when the
\* key does not open the envelope (decryption or parsing throws)
DecryptAmount(priv, ephemPub33, envelope) ==
    IF RpaSharedSecret(priv, PointFromBytes(ephemPub33)) = envelope.key
    THEN envelope.v ELSE -1

(***************************************************************************)
(* Scripts and the covenant (covenants.js, proofs.js)                      *)
(***************************************************************************)
OP_PUSH32 == HashLen        \* 0x20: push of a 32-byte digest
OP_PUSH20 == Hash160Len     \* 0x14: push of a 20-byte hash
OP_DROP == 117              \* 0x75
OP_DUP == 118               \* 0x76
OP_HASH160 == 169           \* 0xa9
OP_EQUAL == 135             \* 0x87
OP_EQUALVERIFY == 136       \* 0x88
OP_CHECKSIG == 172          \* 0xac

\* the compiled covenant template (artifact.json), a fixed tail of opcodes
TemplateBytecode == << 120, OP_HASH160, OP_EQUALVERIFY, 204, 157 >>

\* getP2SHScript(hash20): OP_HASH160 <20> OP_EQUAL
GetP2SHScript(hash20) == << OP_HASH160, OP_PUSH20 >> \o hash20 \o << OP_EQUAL >>
P2SHLen == Hash160Len + 3   \* 23 in the source

\* getP2PKHScript(hash20): OP_DUP OP_HASH160 <20> OP_EQUALVERIFY OP_CHECKSIG
GetP2PKHScript(hash20) ==
    << OP_DUP, OP_HASH160, OP_PUSH20 >> \o hash20 \o << OP_EQUALVERIFY, OP_CHECKSIG >>
P2PKHLen == Hash160Len + 5  \* 25 in the source

NoCovenant == [ok |-> FALSE, covenantBytecode |-> << >>, covenantScript |-> << >>]

\* a covenant whose proof-hash push is not followed by OP_DROP
CreateCovenantNoDrop(bobKeyOrHash, proofHash32) ==
    IF Len(bobKeyOrHash) \notin { PointLen, Hash160Len } THEN NoCovenant
    ELSE IF proofHash32 # << >> /\ Len(proofHash32) # HashLen THEN NoCovenant
    ELSE [ok |-> TRUE,
          covenantBytecode |->
              (IF proofHash32 # << >> THEN << OP_PUSH32 >> \o proofHash32 ELSE << >>)
                \o << OP_PUSH20 >>
                \o (IF Len(bobKeyOrHash) = PointLen THEN Hash160(bobKeyOrHash)
                    ELSE bobKeyOrHash)
                \o TemplateBytecode,
          covenantScript |-> << >>]

\* createCovenant(bobKeyOrHash, proofHash32): proofHash32 = << >> when not given
CreateCovenant(bobKeyOrHash, proofHash32) ==
    IF Len(bobKeyOrHash) \notin { PointLen, Hash160Len } THEN NoCovenant
    ELSE IF proofHash32 # << >> /\ Len(proofHash32) # HashLen THEN NoCovenant
    ELSE LET bobHash20 == IF Len(bobKeyOrHash) = PointLen THEN Hash160(bobKeyOrHash)
                          ELSE bobKeyOrHash
             pushBobGuard == << OP_PUSH20 >> \o bobHash20
             header == IF proofHash32 # << >>
                       THEN << OP_PUSH32 >> \o proofHash32 \o << OP_DROP >> \o pushBobGuard
                       ELSE pushBobGuard
             redeemScript == header \o TemplateBytecode
         IN  [ok |-> TRUE,
              covenantBytecode |-> redeemScript,
              covenantScript |-> GetP2SHScript(Hash160(redeemScript))]

NoPayHash == [ok |-> FALSE, payHash20 |-> << >>, offset |-> 0]

\* an extractor that reads whatever follows the first byte as the hash
ExtractPayHashGuessed(redeemScript) ==
    IF Len(redeemScript) < 1 + Hash160Len THEN NoPayHash
    ELSE [ok |-> TRUE, payHash20 |-> Slice(redeemScript, 1, 1 + Hash160Len),
          offset |-> 1 + Hash160Len]

\* extractPayHashFromRedeemScript(redeemScript) -> {payHash20, offset};
\* ok = FALSE when it throws
ExtractPayHashFromRedeemScript(redeemScript) ==
    IF Len(redeemScript) < 1 + Hash160Len THEN NoPayHash
    ELSE LET hasHeader == redeemScript[1] = OP_PUSH32
             end == 1 + OP_PUSH32
         IN  IF hasHeader /\ end + 1 > Len(redeemScript) THEN NoPayHash
             ELSE IF hasHeader /\ redeemScript[end + 1] # OP_DROP THEN NoPayHash
             ELSE LET i == IF hasHeader THEN end + 1 ELSE 0
                      startHash == i + 1
                      endHash == startHash + Hash160Len
                  IN  IF i >= Len(redeemScript) THEN NoPayHash
                      ELSE IF redeemScript[i + 1] # OP_PUSH20 THEN NoPayHash
                      ELSE IF endHash > Len(redeemScript) THEN NoPayHash
                      ELSE [ok |-> TRUE,
                            payHash20 |-> Slice(redeemScript, startHash, endHash),
                            offset |-> endHash]

\* extractLeadingPush20(bytecode): the pay hash, or << >> (null) when the layout
\* is not the expected one
ExtractLeadingPush20(bytecode) ==
    LET r == ExtractPayHashFromRedeemScript(bytecode)
    IN  IF r.ok THEN r.payHash20 ELSE << >>

\* the first check of assertCovenantWillPassEqVerifies:
\* HASH160(payPub33) == payHash20 embedded in the redeem script
GuardCheckPasses(redeemScript, payPub33) ==
    LET r == ExtractPayHashFromRedeemScript(redeemScript)
    IN  r.ok /\ Hash160(payPub33) = r.payHash20

\* the second check: OUTPUTVALUE(0) == decryptedAmount
ValueCheckPasses(vout0Value, decryptedAmount) == vout0Value = decryptedAmount

(***************************************************************************)
(* The chained flow (demo.js demoSilentTransfer, proofs.js builders):      *)
(* Alice funds the covenant, Bob returns it to an RPA address of Alice,    *)
(* Alice spends the RPA output.  flow.log lists the stages reached.        *)
(***************************************************************************)
DUST == 1               \* 546 sats in the source; amounts are below 2^BITS here
COVENANT_INDEX == 0
COVENANT_VOUT == 1      \* the covenant output of the funding transaction
FundSize == 1           \* estimated sizes, in units of one fee step
ReturnSize == 1
ReturnSizeWithChange == 2
SpendSize == 1

\* Math.ceil(estSize * rate)
FeeFor(size, rate) == size * rate

\* reverseBytes(u8)
ReverseBytes(b) == [i \in 1..Len(b) |-> b[Len(b) + 1 - i]]

\* the CashTokens prefix of an output carrying an NFT with a commitment
TokenPrefix(category, commitment) ==
    << 239 >> \o category \o << 97 >> \o VarInt(Len(commitment)) \o commitment

\* extractTokenPrefixFromScript(spk): << >> (null) when there is none
ExtractTokenPrefixFromScript(spk) ==
    IF Len(spk) < P2SHLen THEN << >>
    ELSE IF spk[1] # 239 THEN << >>
    ELSE Slice(spk, 0, Len(spk) - P2SHLen)

\* Uint8Array.prototype.slice(-k)
SliceLast(s, k) == Slice(s, IF Len(s) > k THEN Len(s) - k ELSE 0, Len(s))

\* splitTokenPrefix(spk) -> {prefix, locking}: the locking script is what follows
\* the token prefix, the whole script when there is no prefix
SplitTokenPrefix(spk) ==
    IF spk # << >> /\ spk[1] = 239 /\ Len(spk) > P2PKHLen
    THEN [prefix |-> Slice(spk, 0, Len(spk) - P2PKHLen), locking |-> SliceLast(spk, P2PKHLen)]
    ELSE [prefix |-> << >>, locking |-> spk]

\* the order of the steps of demoSilentTransfer and of the builders it calls
FlowOrder ==
    << "deriveGuardKey", "computeFunding", "fundBuild", "fundSign", "fundBroadcast",
       "decrypt", "regenCheck", "bobMatch", "bobBuild", "bobGuard", "bobValue",
       "bobSign", "bobBroadcast", "aliceDerive", "spendBuild", "spendSign",
       "spendBroadcast", "done" >>

\* the same steps without the two covenant checks of buildBobReturnTx
FlowOrderUnchecked ==
    << "deriveGuardKey", "computeFunding", "fundBuild", "fundSign", "fundBroadcast",
       "decrypt", "regenCheck", "bobMatch", "bobBuild",
       "bobSign", "bobBroadcast", "aliceDerive", "spendBuild", "spendSign",
       "spendBroadcast", "done" >>

\* the same steps with the return transaction broadcast before it is signed
FlowOrderUnsigned ==
    << "deriveGuardKey", "computeFunding", "fundBuild", "fundSign", "fundBroadcast",
       "decrypt", "regenCheck", "bobMatch", "bobBuild", "bobGuard", "bobValue",
       "bobBroadcast", "bobSign", "aliceDerive", "spendBuild", "spendSign",
       "spendBroadcast", "done" >>

Successor(order, pc) ==
    LET at == { i \in 1..(Len(order) - 1) : order[i] = pc }
    IN  IF at = {} THEN "done" ELSE order[(CHOOSE i \in at : TRUE) + 1]

NextPcUnchecked(pc) == Successor(FlowOrderUnchecked, pc)
NextPcUnsigned(pc) == Successor(FlowOrderUnsigned, pc)

\* where control goes when the step at pc returns normally
NextPc(pc) == Successor(FlowOrder, pc)

\* the step at f.pc returned: a stage of transaction tx was reached
Reached(f, tx, stage) ==
    [f EXCEPT !.pc = NextPc(f.pc), !.log = Append(@, << tx, stage >>)]

\* an error that is logged and after which the flow carries on
Swallow(f, tx) ==
    [f EXCEPT !.pc = Successor(FlowOrder, f.pc), !.log = Append(@, << tx, "Failed" >>)]

\* a throw: it propagates out of demoSilentTransfer to mainCli's catch, which
\* exits the process
Throw(f, tx) == [f EXCEPT !.pc = "aborted", !.log = Append(@, << tx, "Failed" >>)]

\* a comparison that accepts every pair
RpaGuardCheckSkipped(derivedHash160, committedHash160) == TRUE

\* arraysEqual(HASH160(receiver-derived pub), hash the sender committed)
RpaGuardCheck(derivedHash160, committedHash160) == derivedHash160 = committedHash160

\* a regeneration check that accepts everything
RegenMatchesSkipped(regenCommitment, nftCommitment, regenCoreHash, originalCoreHash) == TRUE

\* the two comparisons after Bob regenerates the proof
RegenMatches(regenCommitment, nftCommitment, regenCoreHash, originalCoreHash) ==
    regenCommitment = nftCommitment /\ regenCoreHash = originalCoreHash

\* arraysEqual(rawPrevScript.slice(-23), expectedP2SH)
ScriptMatches(actualTail, expectedP2SH) == actualTail = expectedP2SH

\* seed = sha256(ephemPub33 || uint64le(amount))
AmountSeed(ephemPub33, amount) == Sha256(ephemPub33 \o Uint64le(amount))

\* computeFundingEnvelope(ephemPub33, amount, tokenCategory32, outIndex)
ComputeFundingEnvelope(ephemPub33, amount, tokenCategory32, outIndex) ==
    IF Len(ephemPub33) # PointLen \/ amount < 0 THEN [NoBuild EXCEPT !.st = "throw"]
    ELSE BuildAmountProofEnvelope(amount, AmountSeed(ephemPub33, amount), ephemPub33,
                                  tokenCategory32, outIndex, << >>)

\* demoSilentTransfer, step 1: ephemeral key, the sender's lock intent, the
\* receiver-side check of the guard key, the encrypted amount
DeriveGuardKey(f) ==
    LET bobPubBytes == GetPublicKey(f.bob.priv)
        ephemPriv == DeriveEphemeralPriv(bobPubBytes, f.sendAmount, f.aliceUtxo.txid,
                                         f.aliceUtxo.vout)
        sendIntent == DeriveRpaLockIntent(RPA_MODE_CONF_ASSET, f.alice.priv, bobPubBytes,
                          bobPubBytes, f.aliceUtxo.txid, f.aliceUtxo.vout, COVENANT_INDEX)
        bobGuardPriv == DeriveRpaOneTimePrivReceiver(f.bob.scan, f.bob.spend,
                            GetPublicKey(f.alice.priv), f.aliceUtxo.txid, f.aliceUtxo.vout,
                            COVENANT_INDEX)
    IN  IF ~ValidScalar(ephemPriv) \/ ~sendIntent.ok \/ ~ValidScalar(bobGuardPriv)
        THEN Throw(f, "fund")
        ELSE IF ~RpaGuardCheck(Hash160(GetPublicKey(bobGuardPriv)), sendIntent.childHash160)
        THEN Throw(f, "fund")
        ELSE [f EXCEPT !.pc = NextPc(f.pc),
                       !.ephemPub = GetPublicKey(ephemPriv),
                       !.guardHash = sendIntent.childHash160,
                       !.encrypted = EncryptAmount(ephemPriv, bobPubBytes, f.sendAmount)]

\* step 2 after the envelope: the token (createToken) and the covenant
\* (createCovenant) for the guard hash and the proof hash
FundCovenant(f, categoryBytes, env) ==
    LET cov == CreateCovenant(f.guardHash, env.proofHash)
    IN  IF env.st # "ok" THEN Throw(f, "fund")
        ELSE IF ~cov.ok THEN Throw(f, "fund")
        ELSE [f EXCEPT !.pc = NextPc(f.pc),
                       !.category = categoryBytes,
                       !.commitment = env.commitmentC33,
                       !.proofHash = env.proofHash,
                       !.coreHash = env.coreHashBytes,
                       !.covenantScript = cov.covenantScript]

\* step 2: the funding envelope, the token and the covenant
ComputeFunding(f) ==
    FundCovenant(f, ReverseBytes(f.aliceUtxo.txid),
                 ComputeFundingEnvelope(f.ephemPub, f.sendAmount,
                                        ReverseBytes(f.aliceUtxo.txid), COVENANT_VOUT))

(***************************************************************************)
(* Signing: the sighash of an input, the Schnorr signature over it, the    *)
(* local verification and the scriptSig                                    *)
(***************************************************************************)
SIGHASH_TYPE == 65          \* 0x41: SIGHASH_ALL | SIGHASH_FORKID
SigLen == PointLen + ScalarLen   \* 64 in the source

RECURSIVE SerializeOutputs(_)
SerializeOutputs(outputs) ==
    IF outputs = << >> THEN << >>
    ELSE Uint64le(Head(outputs).value) \o Vbytes(Head(outputs).scriptPubKey)
           \o SerializeOutputs(Tail(outputs))

\* sha256(sha256(preimage)) over the outpoint, the length-prefixed script code,
\* the value, the hash of all outputs and the sighash type
Sighash(txid, vout, scriptCode, value, outputs) ==
    ComputeProofHash(txid \o Uint64le(vout) \o Vbytes(scriptCode) \o Uint64le(value)
                       \o ComputeProofHash(SerializeOutputs(outputs)) \o << SIGHASH_TYPE >>)

\* the challenge e = H(R || P || m) mod n
SchnorrChallenge(R33, pub33, sighash) == FnFromBytes(Sha256(R33 \o pub33 \o sighash))

\* the signature for nonce k: R || s with s = k + e * priv mod n
SchnorrSignWith(k, sighash, priv, pub33) ==
    PointToBytes(PMul(G, k))
      \o << (k + SchnorrChallenge(PointToBytes(PMul(G, k)), pub33, sighash) * priv) % n >>

\* bchSchnorrSign(sighash, priv, pub33): the nonce comes from the key and the message
BchSchnorrSign(sighash, priv, pub33) ==
    SchnorrSignWith((FnFromBytes(Sha256(<< priv >> \o sighash)) % (n - 1)) + 1,
                    sighash, priv, pub33)

\* the equation s * G = R + e * P on the parsed signature
SchnorrEquation(R, sig, sighash, pub33) ==
    /\ R # -1
    /\ PointFromBytes(pub33) # -1
    /\ PMul(G, sig[SigLen])
         = PAdd(R, PMul(PointFromBytes(pub33),
                        SchnorrChallenge(Slice(sig, 0, PointLen), pub33, sighash)))

\* bchSchnorrVerify(sig, sighash, pub33) on the first 64 bytes of sig; FALSE
\* also when a point does not parse
BchSchnorrVerify(sig, sighash, pub33) ==
    /\ Len(sig) >= SigLen
    /\ SchnorrEquation(PointFromBytes(Slice(sig, 0, PointLen)), sig, sighash, pub33)

\* what the signer may hand back: the signature, or one whose s is off by one
SignerOutputs(sighash, priv) ==
    { BchSchnorrSign(sighash, priv, GetPublicKey(priv)),
      [BchSchnorrSign(sighash, priv, GetPublicKey(priv)) EXCEPT ![SigLen] = (@ + 1) % n] }

\* the input's scriptSig: push(sig || 0x41) push(pub33)
ScriptSigOf(sig64, pub33) == Vbytes(sig64 \o << SIGHASH_TYPE >>) \o Vbytes(pub33)

NoSig == [ok |-> FALSE, tx |-> "none", input |-> 0, sighash |-> << >>, pub |-> << >>,
          scriptSig |-> << >>]

\* a signing step that embeds the signature without verifying it
SignInputUnverified(tx, input, priv, sighash, sig64) ==
    [ok |-> TRUE, tx |-> tx, input |-> input, sighash |-> sighash,
     pub |-> GetPublicKey(priv), scriptSig |-> ScriptSigOf(sig64, GetPublicKey(priv))]

\* signInput after bchSchnorrSign returned sig64: verify with the full public
\* key, throw when it fails, else set the scriptSig of the input
SignInput(tx, input, priv, sighash, sig64) ==
    IF ~BchSchnorrVerify(sig64, sighash, GetPublicKey(priv)) THEN NoSig
    ELSE [ok |-> TRUE, tx |-> tx, input |-> input, sighash |-> sighash,
          pub |-> GetPublicKey(priv), scriptSig |-> ScriptSigOf(sig64, GetPublicKey(priv))]

\* buildAliceRpaSpendTx: sign, append the type byte, verify sig65, throw when
\* it fails, else set the scriptSig of input 0
SignSpendInput(priv, sighash, sig64) ==
    IF ~BchSchnorrVerify(sig64 \o << SIGHASH_TYPE >>, sighash, GetPublicKey(priv)) THEN NoSig
    ELSE [ok |-> TRUE, tx |-> "spend", input |-> 0, sighash |-> sighash,
          pub |-> GetPublicKey(priv), scriptSig |-> ScriptSigOf(sig64, GetPublicKey(priv))]

\* the step embedded what signing returned, or the verification threw
Embed(f, tx, signed) ==
    IF ~signed.ok THEN Throw([f EXCEPT !.verifyFailed = tx], tx)
    ELSE [f EXCEPT !.scriptSigs = @ \cup { signed }]

\* buildAliceSendTx up to the assembled transaction
FundBuild(f) ==
    LET fee == FeeFor(FundSize, f.rate)
        change == f.aliceUtxo.value - f.sendAmount - DUST - fee
    IN  IF change < DUST THEN Throw(f, "fund") ELSE Reached(f, "fund", "Built")

\* the covenant output as the funding transaction carries it
FundingOutput(f) ==
    [scriptPubKey |-> TokenPrefix(f.category, f.commitment) \o f.covenantScript,
     value |-> f.sendAmount,
     token_data |-> [category |-> f.category, commitment |-> f.commitment],
     tx_pos |-> COVENANT_VOUT]

\* the outputs of the funding transaction: the covenant output and the change
FundOutputs(f) ==
    << FundingOutput(f),
       [value |-> f.aliceUtxo.value - f.sendAmount - DUST - FeeFor(FundSize, f.rate),
        scriptPubKey |-> GetP2PKHScript(Hash160(GetPublicKey(f.alice.priv)))] >>

\* the txid of a transaction, from its outputs
TxidOf(outputs) == Slice(ComputeProofHash(SerializeOutputs(outputs)), 0, 2)

FundSighash(f) ==
    Sighash(f.aliceUtxo.txid, f.aliceUtxo.vout,
            GetP2PKHScript(Hash160(GetPublicKey(f.alice.priv))), f.aliceUtxo.value,
            FundOutputs(f))

\* what follows signInput once the signed input is known
FundSigned(f, signed) ==
    IF ~signed.ok THEN Embed(f, "fund", NoSig)
    ELSE Reached(Embed(f, "fund", signed), "fund", "Signed")

\* signInput(tx, 0, alicePrivBytes, ...)
FundSign(f, sig64) == FundSigned(f, SignInput("fund", 0, f.alice.priv, FundSighash(f), sig64))

\* what the network may report for the covenant output: the output as funded,
\* or one that carries another commitment, anchors another proof hash, or is
\* guarded by another key hash
CovenantReports(f) ==
    LET asFunded == FundingOutput(f)
        other == PointToBytes(G)
        WithScript(guard, ph) ==
            TokenPrefix(f.category, f.commitment) \o CreateCovenant(guard, ph).covenantScript
    IN  { asFunded,
          [asFunded EXCEPT !.token_data.commitment = other,
                           !.scriptPubKey = TokenPrefix(f.category, other) \o f.covenantScript],
          [asFunded EXCEPT !.scriptPubKey = WithScript(f.guardHash, ComputeProofHash(<< >>))],
          [asFunded EXCEPT !.scriptPubKey = WithScript(Hash160(<< >>), f.proofHash)] }

\* step 4: Bob decrypts the amount
DecryptStep(f) ==
    LET d == DecryptAmount(f.bob.priv, f.ephemPub, f.encrypted)
    IN  IF d = -1 THEN Throw(f, "return")
        ELSE [f EXCEPT !.pc = NextPc(f.pc), !.decryptedAmount = d]

\* a regeneration from a seed that is not the one the sender used
RegenProofOtherSeed(f) ==
    GenerateSigmaRangeProof(f.decryptedAmount, AmountSeed(f.ephemPub, f.decryptedAmount + 1))

\* generateSigmaRangeProof(decryptedAmount, sha256(ephemPub || uint64le(amount)))
RegenProof(f) ==
    GenerateSigmaRangeProof(f.decryptedAmount, AmountSeed(f.ephemPub, f.decryptedAmount))

\* the comparisons of step 6 on the regenerated commitment and core hash
RegenCompare(f, c, regenCommitment, regenCoreHash) ==
    IF ~RegenMatches(regenCommitment, c.covenant.token_data.commitment, regenCoreHash,
                     f.coreHash)
    THEN Throw([f EXCEPT !.regenCommitment = regenCommitment,
                         !.regenCoreHash = regenCoreHash], "return")
    ELSE [f EXCEPT !.pc = NextPc(f.pc),
                   !.regenCommitment = regenCommitment,
                   !.regenCoreHash = regenCoreHash]

\* step 6 with the regenerated proof at hand
RegenCheckOf(f, c, regeneratedProof) ==
    IF ~regeneratedProof.ok THEN Throw(f, "return")
    ELSE RegenCompare(f, c, PointToBytes(regeneratedProof.C),
                      ComputeProofHash(SerializeProof(regeneratedProof)))

\* step 6: Bob regenerates the proof and compares it with the chain and with
\* the funding side
RegenCheck(f, c) == RegenCheckOf(f, c, RegenProof(f))

\* the proof hash Bob rebuilds: the envelope of the regenerated core proof with
\* the category and the position of the covenant UTXO
RegenProofHash(f, c) ==
    ComputeProofHash(BuildProofEnvelope(PROTOCOL_TAG, BITS, f.ephemPub, PointToBytes(H),
                         c.covenant.token_data.category, c.covenant.tx_pos, << >>,
                         SerializeProof(RegenProof(f))))

\* the P2SH script Bob expects: createCovenant(HASH160(one-time pub), regenProofHash)
ExpectedCovenant(oneTimePriv, regenProofHash) ==
    CreateCovenant(Hash160(GetPublicKey(oneTimePriv)), regenProofHash)

\* part 3: the expected script against the script of the UTXO
BobMatchScript(f, c, oneTimePriv, regenProofHash, cov) ==
    IF ~ScriptMatches(SliceLast(c.covenant.scriptPubKey, P2SHLen), cov.covenantScript)
    THEN Throw([f EXCEPT !.regenProofHash = regenProofHash], "return")
    ELSE [f EXCEPT !.pc = NextPc(f.pc),
                   !.regenProofHash = regenProofHash,
                   !.oneTimePriv = oneTimePriv,
                   !.redeemScript = cov.covenantBytecode]

BobMatchRegen(f, c, oneTimePriv, regenProofHash) ==
    BobMatchScript(f, c, oneTimePriv, regenProofHash,
                   ExpectedCovenant(oneTimePriv, regenProofHash))

\* buildBobReturnTx, parts 1 to 3: decrypt, rebuild the guard key and the proof
\* hash, match the redeem script against the UTXO's P2SH script
BobMatchCovenant(f, c) ==
    LET d == DecryptAmount(f.bob.priv, f.ephemPub, f.encrypted)
        oneTimePriv == DeriveRpaOneTimePrivReceiver(f.bob.scan, f.bob.spend,
                           GetPublicKey(f.alice.priv), f.aliceUtxo.txid, f.aliceUtxo.vout,
                           COVENANT_INDEX)
    IN  IF d = -1 \/ ~ValidScalar(oneTimePriv) THEN Throw(f, "return")
        ELSE IF ~RegenProof(f).ok THEN Throw(f, "return")
        ELSE BobMatchRegen(f, c, oneTimePriv, RegenProofHash(f, c))

NoTx == [outputs |-> << >>, fee |-> 0]

RECURSIVE SumValues(_)
SumValues(outputs) ==
    IF outputs = << >> THEN 0 ELSE Head(outputs).value + SumValues(Tail(outputs))

\* a plan that leaves a remainder below the dust limit where it is
ReturnPlanKeepDust(totalInput, amount, rate, dust) ==
    LET feeNoChange == FeeFor(ReturnSize, rate)
        changeNoChange == totalInput - amount - feeNoChange
        feeEst == IF changeNoChange >= dust THEN FeeFor(ReturnSizeWithChange, rate)
                  ELSE feeNoChange
    IN  [throws |-> totalInput - amount - feeEst < 0, fee |-> feeEst,
         change |-> totalInput - amount - feeEst]

\* buildBobReturnTx, part 4C: the fee without and with a change output, the
\* change, and the change below the dust limit that goes to the fee
ReturnPlan(totalInput, amount, rate, dust) ==
    LET feeNoChange == FeeFor(ReturnSize, rate)
        changeNoChange == totalInput - amount - feeNoChange
        feeEst == IF changeNoChange >= dust THEN FeeFor(ReturnSizeWithChange, rate)
                  ELSE feeNoChange
        changeEst == totalInput - amount - feeEst
        burn == changeEst > 0 /\ changeEst < dust
    IN  [throws |-> changeEst < 0,
         fee |-> IF burn THEN feeEst + changeEst ELSE feeEst,
         change |-> IF burn THEN 0 ELSE changeEst]

\* part 5: output 0 with the decrypted amount, a change output when it is no dust
ReturnOutputs(amount, vout0Script, change, changeScript, dust) ==
    << [value |-> amount, scriptPubKey |-> vout0Script] >>
    \o (IF change >= dust THEN << [value |-> change, scriptPubKey |-> changeScript] >>
        ELSE << >>)

\* buildBobReturnTx, parts 4 and 5: fee input, the RPA address of Alice, fee and
\* change, the assembled transaction
BobBuild(f, c) ==
    LET alicePayPub == GetPublicKey(f.alice.priv)
        rpaIntent == DeriveRpaLockIntent(RPA_MODE_STEALTH_P2PKH, f.bob.priv, alicePayPub,
                         alicePayPub, f.bobUtxo.txid, f.bobUtxo.vout, 0)
        totalInput == c.covenant.value + f.bobUtxo.value
        prevTokenPrefix == ExtractTokenPrefixFromScript(c.covenant.scriptPubKey)
        vout0Script == prevTokenPrefix \o GetP2PKHScript(rpaIntent.childHash160)
        p == ReturnPlan(totalInput, f.decryptedAmount, f.rate, DUST)
        outputs == ReturnOutputs(f.decryptedAmount, vout0Script, p.change,
                                 GetP2PKHScript(Hash160(GetPublicKey(f.bob.priv))), DUST)
    IN  IF ~f.bobUtxo.present THEN Throw(f, "return")           \* no UTXO for fees
        ELSE IF ~rpaIntent.ok THEN Throw(f, "return")
        ELSE IF p.throws THEN Throw(f, "return")
        ELSE IF SumValues(outputs) # totalInput - p.fee THEN Throw(f, "return")
        ELSE [Reached(f, "return", "Built") EXCEPT
                  !.returnTx = [outputs |-> outputs, fee |-> p.fee]]

\* part 6, first check: the pay hash of the redeem script against
\* HASH160(one-time pub), directly and in assertCovenantWillPassEqVerifies
BobGuardCheck(f) ==
    LET expectedBobHash20 == ExtractLeadingPush20(f.redeemScript)
        oneTimePub33 == GetPublicKey(f.oneTimePriv)
    IN  IF expectedBobHash20 # << >> /\ expectedBobHash20 # Hash160(oneTimePub33)
        THEN Throw(f, "return")
        ELSE IF ~GuardCheckPasses(f.redeemScript, oneTimePub33) THEN Throw(f, "return")
        ELSE [Reached(f, "return", "GuardVerified") EXCEPT !.guardOk = TRUE]

\* part 6, second check of assertCovenantWillPassEqVerifies
BobValueCheck(f) ==
    IF ~ValueCheckPasses(f.returnTx.outputs[1].value, f.decryptedAmount)
    THEN Throw(f, "return")
    ELSE [Reached(f, "return", "ValueVerified") EXCEPT !.valueOk = TRUE]

\* the sighash of the covenant input and of the fee input of the return transaction
CovenantSighash(f, c) ==
    Sighash(TxidOf(FundOutputs(f)), c.covenant.tx_pos, f.redeemScript, c.covenant.value,
            f.returnTx.outputs)

FeeSighash(f) ==
    Sighash(f.bobUtxo.txid, f.bobUtxo.vout, GetP2PKHScript(Hash160(GetPublicKey(f.bob.priv))),
            f.bobUtxo.value, f.returnTx.outputs)

\* part 7, second signature: signInput with Bob's key
BobSignFee(f, sigFee) ==
    IF f.pc = "aborted" THEN f
    ELSE IF ~SignInput("return", 1, f.bob.priv, FeeSighash(f), sigFee).ok
    THEN Embed(f, "return", NoSig)
    ELSE Reached(Embed(f, "return", SignInput("return", 1, f.bob.priv, FeeSighash(f), sigFee)),
                 "return", "Signed")

\* part 7: signCovenantInput with the one-time key, signInput with Bob's key
BobSign(f, c, sigCov, sigFee) ==
    BobSignFee(Embed(f, "return",
                     SignInput("return", 0, f.oneTimePriv, CovenantSighash(f, c), sigCov)),
               sigFee)

\* demoSilentTransfer, step 8: Alice reads vout[0] of the return transaction and
\* rebuilds the one-time key that must own it
AliceDeriveCheck(f, c) ==
    LET retLockingScript == SplitTokenPrefix(c.returnOut0.scriptPubKey).locking
        hash160FromScript == Slice(retLockingScript, 3, 3 + Hash160Len)
        oneTimePriv == DeriveRpaOneTimePrivReceiver(f.alice.scan, f.alice.spend,
                           GetPublicKey(f.bob.priv), f.bobUtxo.txid, f.bobUtxo.vout, 0)
    IN  IF retLockingScript = << >> THEN Throw(f, "spend")
        ELSE IF retLockingScript # GetP2PKHScript(hash160FromScript) THEN Throw(f, "spend")
        ELSE IF ~ValidScalar(oneTimePriv) THEN Throw(f, "spend")
        ELSE IF ~RpaGuardCheck(Hash160(GetPublicKey(oneTimePriv)), hash160FromScript)
        THEN Throw(f, "spend")
        ELSE [f EXCEPT !.pc = NextPc(f.pc), !.aliceDerivedPriv = oneTimePriv]

\* buildAliceRpaSpendTx up to the assembled transaction
SpendBuild(f, c) ==
    LET fee == FeeFor(SpendSize, f.rate)
        sendValue == c.returnOut0.value - fee
    IN  IF ~ValidScalar(f.aliceDerivedPriv) THEN Throw(f, "spend")
        ELSE IF sendValue <= DUST THEN Throw(f, "spend")
        ELSE [Reached(f, "spend", "Built") EXCEPT
                  !.spendTx = [outputs |-> << [value |-> sendValue,
                        scriptPubKey |-> SplitTokenPrefix(c.returnOut0.scriptPubKey).prefix
                            \o GetP2PKHScript(Hash160(GetPublicKey(f.alice.priv)))] >>,
                               fee |-> fee]]

\* the sighash of input 0 of the spend: the RPA output of the return transaction
SpendSighash(f, c) ==
    Sighash(TxidOf(f.returnTx.outputs), 0, c.returnOut0.scriptPubKey, c.returnOut0.value,
            f.spendTx.outputs)

\* the signature is embedded whether or not it verifies
SpendSignUnverified(f, c, sig64) ==
    Reached(Embed(f, "spend",
                  SignInputUnverified("spend", 0, f.aliceDerivedPriv, SpendSighash(f, c), sig64)),
            "spend", "Signed")

\* what follows bchSchnorrSign once the signed input is known
SpendSigned(f, signed) ==
    IF ~signed.ok THEN Embed(f, "spend", NoSig)
    ELSE Reached(Embed(f, "spend", signed), "spend", "Signed")

\* bchSchnorrSign, then the local bchSchnorrVerify of the signature just made
SpendSign(f, c, sig64) ==
    SpendSigned(f, SignSpendInput(f.aliceDerivedPriv, SpendSighash(f, c), sig64))

(***************************************************************************)
(* The flow as a state machine: one action per step of demoSilentTransfer  *)
(***************************************************************************)
NoOutput == [value |-> 0, scriptPubKey |-> << >>,
             token_data |-> [category |-> << >>, commitment |-> << >>], tx_pos |-> 0]
NoChain == [covenant |-> NoOutput, returnOut0 |-> [value |-> 0, scriptPubKey |-> << >>]]

\* wallets: the base key and the scan/spend keys of the paycode; getWallets may
\* supply a scan key, otherwise demoSilentTransfer aliases it to the base key
Wallets ==
    UNION { { [priv |-> k, scan |-> s, spend |-> k] : s \in { k, (k % MaxKey) + 1 } } :
                k \in 1..MaxKey }

Txids == { << 1, 2 >>, << 5, 3 >> }
AliceUtxos == { [txid |-> t, vout |-> 0, value |-> v] : t \in Txids, v \in { 4, 7 } }
BobUtxos ==
    { [present |-> p, txid |-> << 8, 1 >>, vout |-> 1, value |-> v] :
          p \in BOOLEAN, v \in { 1, 3 } }

FlowStart(alice, bob, aliceUtxo, bobUtxo, sendAmount, rate) ==
    [pc |-> "deriveGuardKey", log |-> << >>,
     alice |-> alice, bob |-> bob, aliceUtxo |-> aliceUtxo, bobUtxo |-> bobUtxo,
     sendAmount |-> sendAmount, rate |-> rate,
     ephemPub |-> << >>, guardHash |-> << >>, encrypted |-> [key |-> << >>, v |-> 0],
     category |-> << >>, commitment |-> << >>, proofHash |-> << >>, coreHash |-> << >>,
     covenantScript |-> << >>, decryptedAmount |-> 0, oneTimePriv |-> 0,
     redeemScript |-> << >>, returnTx |-> NoTx, guardOk |-> FALSE, valueOk |-> FALSE,
     aliceDerivedPriv |-> 0, spendTx |-> NoTx,
     regenCommitment |-> << >>, regenCoreHash |-> << >>, regenProofHash |-> << >>,
     scriptSigs |-> {}, verifyFailed |-> "none"]

IdleFlow ==
    [FlowStart([priv |-> 1, scan |-> 1, spend |-> 1], [priv |-> 1, scan |-> 1, spend |-> 1],
               [txid |-> << >>, vout |-> 0, value |-> 0],
               [present |-> FALSE, txid |-> << >>, vout |-> 0, value |-> 0], 0, 1)
        EXCEPT !.pc = "idle"]

IdleZkIn == [value |-> 0, zkSeed |-> << >>, ephemPub33 |-> << >>, assetId32 |-> << >>,
             outIndex |-> 0]

IdleRpa == [pc |-> "idle"]

IdleCodec == [pc |-> "idle"]
IdlePair == [pc |-> "idle"]
IdleScript == [pc |-> "idle"]
IdlePed == [pc |-> "idle"]
IdlePsbt == [pc |-> "idle"]
IdlePool == [pc |-> "idle"]
IdlePlan == [pc |-> "idle"]

ExtIdle ==
    /\ psbt = IdlePsbt
    /\ pool = IdlePool
    /\ plan = IdlePlan

LibIdleButPsbt ==
    /\ codec = IdleCodec
    /\ pair = IdlePair
    /\ script = IdleScript
    /\ ped = IdlePed
    /\ pool = IdlePool
    /\ plan = IdlePlan

LibIdle ==
    /\ codec = IdleCodec
    /\ pair = IdlePair
    /\ script = IdleScript
    /\ ped = IdlePed
    /\ ExtIdle

ZkIdle ==
    /\ zkIn = IdleZkIn
    /\ zkPc = "idle"
    /\ zkOut = NoBuild
    /\ wire = << >>
    /\ wireKind = "none"
    /\ wirePos = 0
    /\ verdict = "none"
    /\ parsed = NoParse

(***************************************************************************)
(* The envelope harness: a prover builds an envelope, the bytes reach the  *)
(* verifier unchanged, with one bit flipped, cut short or with bytes added *)
(***************************************************************************)
Seeds == { << s, s, 7, 7 >> : s \in 0..MaxSeed }
AssetIds == { << >>, << 9, 9 >> }     \* null (encoded as empty) or a category
EphemPubs == { PointToBytes(2) }

ZkInputs == [value : 0..(Pow2(BITS) - 1), zkSeed : Seeds, ephemPub33 : EphemPubs,
             assetId32 : AssetIds, outIndex : 0..MaxOutIndex]

ZkInit ==
    /\ zkIn \in ZkInputs
    /\ zkPc = "start"
    /\ zkOut = NoBuild
    /\ wire = << >>
    /\ wireKind = "none"
    /\ wirePos = 0
    /\ verdict = "none"
    /\ parsed = NoParse
    /\ rpa = IdleRpa
    /\ flow = IdleFlow
    /\ chain = NoChain
    /\ LibIdle

\* the prover calls buildAmountProofEnvelope
Build ==
    /\ zkPc = "start"
    /\ zkOut' = BuildAmountProofEnvelope(zkIn.value, zkIn.zkSeed, zkIn.ephemPub33,
                                         zkIn.assetId32, zkIn.outIndex, << >>)
    /\ zkPc' = IF zkOut'.st = "ok" THEN "built" ELSE "threw"
    /\ UNCHANGED <<zkIn, wire, wireKind, wirePos, verdict, parsed, rpa, flow, chain, libVars>>

\* the caller verifies the proof object it has just generated
RoundTrip ==
    /\ zkPc = "start"
    /\ verdict' = GenerateThenVerify(zkIn.value, zkIn.zkSeed)
    /\ zkPc' = "roundtrip"
    /\ UNCHANGED <<zkIn, zkOut, wire, wireKind, wirePos, parsed, rpa, flow, chain, libVars>>

\* the envelope arrives as built
SendIntact ==
    /\ zkPc = "built"
    /\ wire' = zkOut.envelope
    /\ wireKind' = "intact"
    /\ wirePos' = 0
    /\ zkPc' = "sent"
    /\ UNCHANGED <<zkIn, zkOut, verdict, parsed, rpa, flow, chain, libVars>>

\* one bit of the envelope is flipped on the way
SendFlipped ==
    /\ zkPc = "built"
    /\ \E pos \in 1..Len(zkOut.envelope), k \in 0..7 :
          /\ wire' = [zkOut.envelope EXCEPT ![pos] = XorBit(@, k)]
          /\ wirePos' = pos
    /\ wireKind' = "flipped"
    /\ zkPc' = "sent"
    /\ UNCHANGED <<zkIn, zkOut, verdict, parsed, rpa, flow, chain, libVars>>

\* only a strict prefix of the envelope arrives
SendTruncated ==
    /\ zkPc = "built"
    /\ \E len \in 0..(Len(zkOut.envelope) - 1) :
          /\ wire' = SubSeq(zkOut.envelope, 1, len)
          /\ wirePos' = len
    /\ wireKind' = "truncated"
    /\ zkPc' = "sent"
    /\ UNCHANGED <<zkIn, zkOut, verdict, parsed, rpa, flow, chain, libVars>>

\* the envelope arrives followed by extra bytes
SendExtended ==
    /\ zkPc = "built"
    /\ \E extra \in 1..MaxExtra, b \in {0, 255} :
          /\ wire' = zkOut.envelope \o [i \in 1..extra |-> b]
          /\ wirePos' = Len(zkOut.envelope) + extra
    /\ wireKind' = "extended"
    /\ zkPc' = "sent"
    /\ UNCHANGED <<zkIn, zkOut, verdict, parsed, rpa, flow, chain, libVars>>

\* the receiver calls verifyAmountProofEnvelope(wire)
Verify ==
    /\ zkPc = "sent"
    /\ verdict = "none"
    /\ verdict' = VerifyAmountProofEnvelope(wire)
    /\ UNCHANGED <<zkIn, zkPc, zkOut, wire, wireKind, wirePos, parsed, rpa, flow, chain, libVars>>

\* the receiver calls parseProofEnvelope(wire)
Parse ==
    /\ zkPc = "sent"
    /\ parsed.st = "none"
    /\ parsed' = ParseProofEnvelope(wire)
    /\ UNCHANGED <<zkIn, zkPc, zkOut, wire, wireKind, wirePos, verdict, rpa, flow, chain, libVars>>

ZkNext ==
    \/ Build \/ RoundTrip
    \/ SendIntact \/ SendFlipped \/ SendTruncated \/ SendExtended
    \/ Verify \/ Parse

SpecZk == ZkInit /\ [][ZkNext]_vars

(***************************************************************************)
(* The flow: actions                                                       *)
(***************************************************************************)
FlowInit ==
    /\ ZkIdle
    /\ LibIdle
    /\ rpa = IdleRpa
    /\ chain = NoChain
    /\ \E alice \in Wallets, bob \in Wallets, aliceUtxo \in AliceUtxos, bobUtxo \in BobUtxos,
          sendAmount \in 0..(Pow2(BITS) - 1), rate \in 1..MaxRate :
          flow = FlowStart(alice, bob, aliceUtxo, bobUtxo, sendAmount, rate)

DemoDeriveGuardKey ==
    /\ flow.pc = "deriveGuardKey"
    /\ flow' = DeriveGuardKey(flow)
    /\ UNCHANGED <<zkVars, rpa, chain, libVars>>

DemoComputeFunding ==
    /\ flow.pc = "computeFunding"
    /\ flow' = ComputeFunding(flow)
    /\ UNCHANGED <<zkVars, rpa, chain, libVars>>

AliceSendBuild ==
    /\ flow.pc = "fundBuild"
    /\ flow' = FundBuild(flow)
    /\ UNCHANGED <<zkVars, rpa, chain, libVars>>

\* bchSchnorrSign returns a signature; signInput verifies it before embedding it
AliceSendSign ==
    /\ flow.pc = "fundSign"
    /\ \E sig64 \in SignerOutputs(FundSighash(flow), flow.alice.priv) :
          flow' = FundSign(flow, sig64)
    /\ UNCHANGED <<zkVars, rpa, chain, libVars>>

\* broadcastTx(txHex, network): the network rejects the transaction (a throw),
\* or accepts it; the covenant output is then read back from the network
AliceSendBroadcast ==
    /\ flow.pc = "fundBroadcast"
    /\ \/ /\ flow' = Throw(flow, "fund")
          /\ UNCHANGED chain
       \/ /\ flow' = Reached(flow, "fund", "Broadcast")
          /\ \E report \in CovenantReports(flow) :
                chain' = [chain EXCEPT !.covenant = report]
    /\ UNCHANGED <<zkVars, rpa, libVars>>

DemoDecrypt ==
    /\ flow.pc = "decrypt"
    /\ flow' = DecryptStep(flow)
    /\ UNCHANGED <<zkVars, rpa, chain, libVars>>

DemoRegenCheck ==
    /\ flow.pc = "regenCheck"
    /\ flow' = RegenCheck(flow, chain)
    /\ UNCHANGED <<zkVars, rpa, chain, libVars>>

BobReturnMatch ==
    /\ flow.pc = "bobMatch"
    /\ flow' = BobMatchCovenant(flow, chain)
    /\ UNCHANGED <<zkVars, rpa, chain, libVars>>

BobReturnBuild ==
    /\ flow.pc = "bobBuild"
    /\ flow' = BobBuild(flow, chain)
    /\ UNCHANGED <<zkVars, rpa, chain, libVars>>

BobReturnGuard ==
    /\ flow.pc = "bobGuard"
    /\ flow' = BobGuardCheck(flow)
    /\ UNCHANGED <<zkVars, rpa, chain, libVars>>

BobReturnValue ==
    /\ flow.pc = "bobValue"
    /\ flow' = BobValueCheck(flow)
    /\ UNCHANGED <<zkVars, rpa, chain, libVars>>

BobReturnSign ==
    /\ flow.pc = "bobSign"
    /\ \E sigCov \in SignerOutputs(CovenantSighash(flow, chain), flow.oneTimePriv),
          sigFee \in SignerOutputs(FeeSighash(flow), flow.bob.priv) :
          flow' = BobSign(flow, chain, sigCov, sigFee)
    /\ UNCHANGED <<zkVars, rpa, chain, libVars>>

\* broadcastTx of the return transaction; on success vout[0] is on the chain
BobReturnBroadcast ==
    /\ flow.pc = "bobBroadcast"
    /\ \/ /\ flow' = Throw(flow, "return")
          /\ UNCHANGED chain
       \/ /\ flow' = Reached(flow, "return", "Broadcast")
          /\ chain' = [chain EXCEPT !.returnOut0 = flow.returnTx.outputs[1]]
    /\ UNCHANGED <<zkVars, rpa, libVars>>

DemoAliceDerive ==
    /\ flow.pc = "aliceDerive"
    /\ flow' = AliceDeriveCheck(flow, chain)
    /\ UNCHANGED <<zkVars, rpa, chain, libVars>>

AliceSpendBuild ==
    /\ flow.pc = "spendBuild"
    /\ flow' = SpendBuild(flow, chain)
    /\ UNCHANGED <<zkVars, rpa, chain, libVars>>

AliceSpendSign ==
    /\ flow.pc = "spendSign"
    /\ \E sig64 \in SignerOutputs(SpendSighash(flow, chain), flow.aliceDerivedPriv) :
          flow' = SpendSign(flow, chain, sig64)
    /\ UNCHANGED <<zkVars, rpa, chain, libVars>>

AliceSpendBroadcast ==
    /\ flow.pc = "spendBroadcast"
    /\ \/ flow' = Throw(flow, "spend")
       \/ flow' = Reached(flow, "spend", "Broadcast")
    /\ UNCHANGED <<zkVars, rpa, chain, libVars>>

FlowNext ==
    \/ DemoDeriveGuardKey \/ DemoComputeFunding
    \/ AliceSendBuild \/ AliceSendSign \/ AliceSendBroadcast
    \/ DemoDecrypt \/ DemoRegenCheck
    \/ BobReturnMatch \/ BobReturnBuild \/ BobReturnGuard \/ BobReturnValue
    \/ BobReturnSign \/ BobReturnBroadcast
    \/ DemoAliceDerive \/ AliceSpendBuild \/ AliceSpendSign \/ AliceSpendBroadcast

SpecFlow == FlowInit /\ [][FlowNext]_vars

(***************************************************************************)
(* One RPA derivation seen from both sides: the sender derives the child   *)
(* key hash from the receiver's public keys, the receiver derives the      *)
(* one-time private key from its scan and spend keys                       *)
(***************************************************************************)
RpaStart(mode, senderPriv, scanPriv, spendPriv, prevoutTxid, prevoutN, index) ==
    [pc |-> "start", mode |-> mode, senderPriv |-> senderPriv, scanPriv |-> scanPriv,
     spendPriv |-> spendPriv, prevoutTxid |-> prevoutTxid, prevoutN |-> prevoutN,
     index |-> index, sent |-> FALSE, received |-> FALSE, intent |-> NoIntent,
     oneTimePriv |-> 0]

RpaInit ==
    /\ ZkIdle
    /\ LibIdle
    /\ flow = IdleFlow
    /\ chain = NoChain
    /\ \E mode \in RpaModes, senderPriv \in 1..MaxKey, scanPriv \in 1..MaxKey,
          spendPriv \in 1..MaxKey, prevoutTxid \in Txids, prevoutN \in 0..1,
          index \in 0..MaxIndex :
          rpa = RpaStart(mode, senderPriv, scanPriv, spendPriv, prevoutTxid, prevoutN, index)

\* the sender calls deriveRpaLockIntent with the receiver's paycode keys
RpaSenderDerive ==
    /\ rpa.pc = "start"
    /\ ~rpa.sent
    /\ rpa' = [rpa EXCEPT !.sent = TRUE,
                  !.intent = DeriveRpaLockIntent(rpa.mode, rpa.senderPriv,
                                 GetPublicKey(rpa.scanPriv), GetPublicKey(rpa.spendPriv),
                                 rpa.prevoutTxid, rpa.prevoutN, rpa.index)]
    /\ UNCHANGED <<zkVars, flow, chain, libVars>>

\* the receiver calls deriveRpaOneTimePrivReceiver with the sender's public key
RpaReceiverDerive ==
    /\ rpa.pc = "start"
    /\ ~rpa.received
    /\ rpa' = [rpa EXCEPT !.received = TRUE,
                  !.oneTimePriv = DeriveRpaOneTimePrivReceiver(rpa.scanPriv, rpa.spendPriv,
                                      GetPublicKey(rpa.senderPriv), rpa.prevoutTxid,
                                      rpa.prevoutN, rpa.index)]
    /\ UNCHANGED <<zkVars, flow, chain, libVars>>

RpaNext == RpaSenderDerive \/ RpaReceiverDerive

SpecRpa == RpaInit /\ [][RpaNext]_vars

(***************************************************************************)
(* The envelope codec on its own: buildProofEnvelope from its fields, then *)
(* parseProofEnvelope on the result                                        *)
(***************************************************************************)
\* an optional byte string: null, or a Uint8Array (possibly empty)
Null == [present |-> FALSE, bytes |-> << >>]
Some(b) == [present |-> TRUE, bytes |-> b]

\* const asset = assetId32 ? assetId32 : new Uint8Array(0)
AssetOrEmpty(assetId32) == IF assetId32.present THEN assetId32.bytes ELSE << >>

\* buildProofEnvelope({protocolTag, ..., coreProofBytes}) from the argument object
BuildFromFields(f, coreProofBytes) ==
    BuildProofEnvelope(f.protocolTag, f.rangeBits, f.ephemPub33, f.H33,
                       AssetOrEmpty(f.assetId32), f.outIndex, f.extraCtx, coreProofBytes)

CodecFields ==
    [protocolTag : { PROTOCOL_TAG, << 66 >> },
     rangeBits : { BITS, 64 },
     ephemPub33 : { PointToBytes(2), PointToBytes(5) },
     H33 : { PointToBytes(H) },
     assetId32 : { Null, Some(<< >>), Some(<< 9, 9 >>) },
     outIndex : 0..MaxOutIndex,
     extraCtx : { << >>, << 7 >> }]

CodecCores == { << >>, << 1, 2, 3 >>, [i \in 1..ProofLen |-> 2] }

CodecInit ==
    /\ ZkIdle
    /\ ExtIdle
    /\ rpa = IdleRpa
    /\ flow = IdleFlow
    /\ chain = NoChain
    /\ pair = IdlePair
    /\ script = IdleScript
    /\ ped = IdlePed
    /\ \E f \in CodecFields, core \in CodecCores :
          codec = [pc |-> "start", fields |-> f, core |-> core, envelope |-> << >>,
                   parsed |-> NoParse]

\* the sender builds the envelope
CodecBuild ==
    /\ codec.pc = "start"
    /\ codec' = [codec EXCEPT !.pc = "built",
                              !.envelope = BuildFromFields(codec.fields, codec.core)]
    /\ UNCHANGED <<zkVars, rpa, flow, chain, pair, script, ped, extVars>>

\* the receiver parses it
CodecParse ==
    /\ codec.pc = "built"
    /\ codec' = [codec EXCEPT !.pc = "parsed",
                              !.parsed = ParseProofEnvelope(codec.envelope)]
    /\ UNCHANGED <<zkVars, rpa, flow, chain, pair, script, ped, extVars>>

CodecNext == CodecBuild \/ CodecParse

SpecCodec == CodecInit /\ [][CodecNext]_vars

(***************************************************************************)
(* Two transfers to one receiver: the ephemeral key, the proof seed and    *)
(* the RPA session key of each                                             *)
(***************************************************************************)
NoSeeds == [done |-> FALSE, ok |-> FALSE, digest |-> << >>, ephemPriv |-> 0,
            ephemPub |-> << >>, seed |-> << >>, sessionKey |-> << >>]

\* the seed of the amount proof once the ephemeral key is known
SeedsFromKey(digest, ephemPriv, amount, sessionKey) ==
    IF ~ValidScalar(ephemPriv) THEN [NoSeeds EXCEPT !.done = TRUE, !.digest = digest]
    ELSE [done |-> TRUE, ok |-> TRUE, digest |-> digest, ephemPriv |-> ephemPriv,
          ephemPub |-> GetPublicKey(ephemPriv),
          seed |-> AmountSeed(GetPublicKey(ephemPriv), amount),
          sessionKey |-> sessionKey]

\* step 1 and the seed of step 2 for one transfer t = (amount, txid, vout)
TransferSeeds(receiverPub33, sharedSecret, t) ==
    SeedsFromKey(EphemeralDigest(receiverPub33, t.amount, t.txid, t.vout),
                 DeriveEphemeralPriv(receiverPub33, t.amount, t.txid, t.vout),
                 t.amount,
                 DeriveRpaSessionKeys(sharedSecret, t.txid, t.vout).sessionKey)

Transfers == [amount : 0..(Pow2(BITS) - 1), txid : Txids, vout : 0..1]
SharedSecrets == { Sha256(<< 1 >>), Sha256(<< 2 >>) }

PairInit ==
    /\ ZkIdle
    /\ ExtIdle
    /\ rpa = IdleRpa
    /\ flow = IdleFlow
    /\ chain = NoChain
    /\ codec = IdleCodec
    /\ script = IdleScript
    /\ ped = IdlePed
    /\ \E receiver \in 1..MaxKey, secret \in SharedSecrets, a \in Transfers, b \in Transfers :
          pair = [pc |-> "first", receiverPub33 |-> GetPublicKey(receiver),
                  sharedSecret |-> secret, a |-> a, b |-> b,
                  sa |-> NoSeeds, sb |-> NoSeeds]

PairFirstTransfer ==
    /\ pair.pc = "first"
    /\ pair' = [pair EXCEPT !.pc = "second",
                            !.sa = TransferSeeds(pair.receiverPub33, pair.sharedSecret, pair.a)]
    /\ UNCHANGED <<zkVars, rpa, flow, chain, codec, script, ped, extVars>>

PairSecondTransfer ==
    /\ pair.pc = "second"
    /\ pair' = [pair EXCEPT !.pc = "done",
                            !.sb = TransferSeeds(pair.receiverPub33, pair.sharedSecret, pair.b)]
    /\ UNCHANGED <<zkVars, rpa, flow, chain, codec, script, ped, extVars>>

PairNext == PairFirstTransfer \/ PairSecondTransfer

SpecPair == PairInit /\ [][PairNext]_vars

(***************************************************************************)
(* One redeem script: createCovenant makes it, it may arrive changed, and  *)
(* the two extractors read the guard hash from it                          *)
(***************************************************************************)
\* the redeem script as made, cut short, or with one byte replaced
Arrivals(redeemScript) ==
    { redeemScript }
      \cup { Slice(redeemScript, 0, l) : l \in 0..(Len(redeemScript) - 1) }
      \cup { [redeemScript EXCEPT ![p] = v] :
                 p \in 1..Len(redeemScript), v \in { 0, OP_PUSH32, OP_PUSH20, OP_DROP } }

ScriptGuards == { GetPublicKey(1), Hash160(GetPublicKey(2)), << 1 >> }
ScriptProofHashes == { << >>, ComputeProofHash(<< 1 >>), << 1, 2 >> }

ScriptInit ==
    /\ ZkIdle
    /\ ExtIdle
    /\ rpa = IdleRpa
    /\ flow = IdleFlow
    /\ chain = NoChain
    /\ codec = IdleCodec
    /\ pair = IdlePair
    /\ ped = IdlePed
    /\ \E g \in ScriptGuards, ph \in ScriptProofHashes :
          script = [pc |-> "create", bobKeyOrHash |-> g, proofHash32 |-> ph,
                    cov |-> NoCovenant, bytes |-> << >>, result |-> NoPayHash,
                    leading |-> << >>]

\* createCovenant(bobKeyOrHash, proofHash32); a throw ends the run
ScriptCreate ==
    /\ script.pc = "create"
    /\ script' = [script EXCEPT
                     !.cov = CreateCovenant(script.bobKeyOrHash, script.proofHash32),
                     !.pc = IF CreateCovenant(script.bobKeyOrHash, script.proofHash32).ok
                            THEN "arrive" ELSE "aborted"]
    /\ UNCHANGED <<zkVars, rpa, flow, chain, codec, pair, ped, extVars>>

\* the bytes handed to the extractors
ScriptArrive ==
    /\ script.pc = "arrive"
    /\ \E b \in Arrivals(script.cov.covenantBytecode) :
          script' = [script EXCEPT !.pc = "extract", !.bytes = b]
    /\ UNCHANGED <<zkVars, rpa, flow, chain, codec, pair, ped, extVars>>

\* extractPayHashFromRedeemScript(bytes)
ScriptExtract ==
    /\ script.pc = "extract"
    /\ script' = [script EXCEPT !.pc = "leading",
                                !.result = ExtractPayHashFromRedeemScript(script.bytes)]
    /\ UNCHANGED <<zkVars, rpa, flow, chain, codec, pair, ped, extVars>>

\* extractLeadingPush20(bytes)
ScriptLeading ==
    /\ script.pc = "leading"
    /\ script' = [script EXCEPT !.pc = "done",
                                !.leading = ExtractLeadingPush20(script.bytes)]
    /\ UNCHANGED <<zkVars, rpa, flow, chain, codec, pair, ped, extVars>>

ScriptNext == ScriptCreate \/ ScriptArrive \/ ScriptExtract \/ ScriptLeading

SpecScript == ScriptInit /\ [][ScriptNext]_vars

(***************************************************************************)
(* Pedersen commitments (pedersen.js) with the generator caches _H and     *)
(* _assetH, and calls of the derivation and proof functions in any order   *)
(***************************************************************************)
TAG_ASSET == << 67, 84, 47, 65 >>    \* 'BCH-CT/ASSET', shortened
MaxCalls == 3       \* calls made in one run
MaxU64 == Pow2(BITS) - 1             \* 0xffff_ffff_ffff_ffff at the miniature width

PedAssets == { << 9, 9 >>, << 5, 5 >> }

\* the caches: H = -1 is _H = null, assetH[a] = -1 is "no entry for a"
EmptyCache == [H |-> -1, assetH |-> [a \in PedAssets |-> -1]]

\* a getH that hands out the generator of an asset once one is cached
GetHAfterAsset(cache) ==
    IF \E a \in PedAssets : cache.assetH[a] # -1
    THEN [P |-> cache.assetH[CHOOSE a \in PedAssets : cache.assetH[a] # -1], cache |-> cache]
    ELSE IF cache.H # -1 THEN [P |-> cache.H, cache |-> cache]
    ELSE [P |-> HashToPointFrom(TAG_H, << >>, 0),
          cache |-> [cache EXCEPT !.H = HashToPointFrom(TAG_H, << >>, 0)]]

\* getH(): the cached point, or hashToPoint(TAG_H, empty) which is then cached
GetH(cache) ==
    IF cache.H # -1 THEN [P |-> cache.H, cache |-> cache]
    ELSE [P |-> HashToPointFrom(TAG_H, << >>, 0),
          cache |-> [cache EXCEPT !.H = HashToPointFrom(TAG_H, << >>, 0)]]

\* a getAssetH that hands out _H whenever it is cached, whatever the asset
GetAssetHFirstCached(cache, assetId) ==
    IF ~assetId.present \/ cache.H # -1 THEN GetH(cache)
    ELSE [P |-> HashToPointFrom(TAG_ASSET, assetId.bytes, 0), cache |-> cache]

\* getAssetH(assetId): getH() for a null asset, else the cached generator of
\* the asset or hashToPoint(TAG_ASSET, assetId), which is then cached
GetAssetH(cache, assetId) ==
    IF ~assetId.present THEN GetH(cache)
    ELSE IF cache.assetH[assetId.bytes] # -1
    THEN [P |-> cache.assetH[assetId.bytes], cache |-> cache]
    ELSE [P |-> HashToPointFrom(TAG_ASSET, assetId.bytes, 0),
          cache |-> [cache EXCEPT !.assetH[assetId.bytes] =
                                     HashToPointFrom(TAG_ASSET, assetId.bytes, 0)]]

\* toCompressed(P) = P.toBytes(true); noble throws on the point at infinity
ToCompressed(P) ==
    IF P = ZERO \/ P = -1 THEN [st |-> "throw", bytes |-> << >>]
    ELSE [st |-> "ok", bytes |-> PointToBytes(P)]

\* pedersenCommit64 once blind and H* are known:
\* G.multiply(v).add(H.multiply(blind)); -1 when a multiply throws
PedersenCommit64Point(value, blind, Hstar) ==
    IF value < 0 \/ value > MaxU64 THEN -1
    ELSE IF ~ValidScalar(value) \/ ~ValidScalar(blind) THEN -1
    ELSE PAdd(PMul(G, value), PMul(Hstar, blind))

\* pedersenCommit64(value, r, assetId): the point (or -1) and the caches after
PedersenCommit64(cache, value, r, assetId) ==
    [P |-> PedersenCommit64Point(value, ((r % n) + n) % n, GetAssetH(cache, assetId).P),
     cache |-> IF value < 0 \/ value > MaxU64 THEN cache
               ELSE GetAssetH(cache, assetId).cache]

\* zk.js pedersenCommit(v, r) with a bigint r: H.multiply(v).add(G.multiply(r mod n))
PedersenCommit(v, r) ==
    IF ~ValidScalar(v) \/ ~ValidScalar(((r % n) + n) % n) THEN -1
    ELSE PAdd(PMul(H, v), PMul(G, ((r % n) + n) % n))

\* an asset argument as bytes of a call record
AssetArg(assetId) == IF assetId.present THEN << 1 >> \o assetId.bytes ELSE << 0 >>

\* one call as it is logged: the function, its arguments, what it returned
Call(fn, arg, out) == [fn |-> fn, arg |-> arg, out |-> out]

BytesOut(ok, bytes) == IF ok THEN [st |-> "ok", bytes |-> bytes] ELSE [st |-> "throw", bytes |-> << >>]

PedInit ==
    /\ ZkIdle
    /\ ExtIdle
    /\ rpa = IdleRpa
    /\ flow = IdleFlow
    /\ chain = NoChain
    /\ codec = IdleCodec
    /\ pair = IdlePair
    /\ script = IdleScript
    \* zk.js calls getH() when it is loaded; pedersen.js alone starts with _H = null
    /\ \E loaded \in BOOLEAN :
          ped = [pc |-> "run", calls |-> << >>,
                 cache |-> IF loaded THEN GetH(EmptyCache).cache ELSE EmptyCache]

\* the call is logged and the caches are as the call left them
Logged(fn, arg, out, cache) ==
    /\ ped.pc = "run"
    /\ Len(ped.calls) < MaxCalls
    /\ ped' = [ped EXCEPT !.calls = Append(@, Call(fn, arg, out)), !.cache = cache]
    /\ UNCHANGED <<zkVars, rpa, flow, chain, codec, pair, script, extVars>>

CallGetH ==
    Logged("getH", << >>, ToCompressed(GetH(ped.cache).P), GetH(ped.cache).cache)

CallGetAssetH ==
    \E a \in { Some(<< 5, 5 >>) } :
        Logged("getAssetH", AssetArg(a), ToCompressed(GetAssetH(ped.cache, a).P),
               GetAssetH(ped.cache, a).cache)

LABEL_BLIND == << 98 >>     \* 'BCH-CT blind', shortened
LABEL_ENC == << 101 >>      \* 'BCH-CT enc', shortened

\* deriveSharedSecret: getSharedSecret without its parity byte
DeriveSharedSecret(priv, pub33) == << XCoord[PMul(PointFromBytes(pub33), priv)] >>

\* kdf(secret32, label, extra) = sha256(label || secret || extra)
Kdf(secret, label, extra) == Sha256(label \o secret \o extra)

\* the digest reduced mod n, zero included
ReduceBlind(blindBytes) == BytesMod(blindBytes, n)

\* r %= ORDER_N; if (r === 0n) r = 1n
ReduceBlindNonZero(blindBytes) ==
    IF BytesMod(blindBytes, n) = 0 THEN 1 ELSE BytesMod(blindBytes, n)

\* deriveBlindAndKey(priv32, pub33, ctx) -> {r, encKey}
DeriveBlindAndKey(priv, pub33, ctx) ==
    [r |-> ReduceBlindNonZero(Kdf(DeriveSharedSecret(priv, pub33), LABEL_BLIND, ctx)),
     encKey |-> Kdf(DeriveSharedSecret(priv, pub33), LABEL_ENC, ctx)]

\* (value, r, assetId) tried: an asset, no asset, the value 0, a blinding that
\* is a multiple of n, a blinding above n
PedCommitInputs ==
    { << 2, 1, Some(<< 9, 9 >>) >>, << 2, 1, Null >>, << 0, 1, Null >>, << 2, n, Null >>,
      << 2, n + 3, Null >> }

CallPedersenCommit64 ==
    \E args \in PedCommitInputs :
        Logged("pedersenCommit64", << args[1], args[2] >> \o AssetArg(args[3]),
               ToCompressed(PedersenCommit64(ped.cache, args[1], args[2], args[3]).P),
               PedersenCommit64(ped.cache, args[1], args[2], args[3]).cache)

CallPedersenCommit ==
    \E v \in { 2 }, r \in { n + 3 } :
        Logged("pedersenCommit", << v, r >>, ToCompressed(PedersenCommit(v, r)), ped.cache)

\* the seed and the two calls made with it: generateSigmaRangeProof(1, seed)
\* and buildAmountProofEnvelope(2, seed, ...)
PedSeed == << 2, 2, 7, 7 >>
PedSigmaProof == GenerateSigmaRangeProof(1, PedSeed)
PedEnvelope == BuildAmountProofEnvelope(2, PedSeed, PointToBytes(2), << >>, 0, << >>)

CallGenerateSigmaRangeProof ==
    Logged("generateSigmaRangeProof", << 1 >> \o PedSeed,
           BytesOut(PedSigmaProof.ok, SerializeProof(PedSigmaProof)), ped.cache)

CallBuildAmountProofEnvelope ==
    Logged("buildAmountProofEnvelope", << 2 >> \o PedSeed,
           BytesOut(PedEnvelope.st = "ok", PedEnvelope.envelope), ped.cache)

CallDeriveRpaSessionKeys ==
    \E t \in { << 1, 2 >> } :
        Logged("deriveRpaSessionKeys", t,
               BytesOut(TRUE, DeriveRpaSessionKeys(Sha256(<< 1 >>), t, 0).sessionKey
                                \o DeriveRpaSessionKeys(Sha256(<< 1 >>), t, 0).zkSeed),
               ped.cache)

CallDeriveRpaLockIntent ==
    \E t \in { << 1, 2 >> } :
        Logged("deriveRpaLockIntent", t,
               BytesOut(DeriveRpaLockIntent(RPA_MODE_CONF_ASSET, 1, GetPublicKey(2),
                                            GetPublicKey(2), t, 0, 0).ok,
                        DeriveRpaLockIntent(RPA_MODE_CONF_ASSET, 1, GetPublicKey(2),
                                            GetPublicKey(2), t, 0, 0).childHash160),
               ped.cache)

\* deriveBlindAndKey on a context whose digest reduces to zero and on one whose
\* digest does not
CallDeriveBlindAndKey ==
    \E ctx \in { << 5 >>, << 4 >> } :
        Logged("deriveBlindAndKey", << 1 >> \o GetPublicKey(1) \o ctx,
               BytesOut(TRUE, << DeriveBlindAndKey(1, GetPublicKey(1), ctx).r >>
                                \o DeriveBlindAndKey(1, GetPublicKey(1), ctx).encKey),
               ped.cache)

PedNext ==
    \/ CallGetH \/ CallGetAssetH \/ CallPedersenCommit64 \/ CallPedersenCommit
    \/ CallGenerateSigmaRangeProof \/ CallBuildAmountProofEnvelope
    \/ CallDeriveRpaSessionKeys \/ CallDeriveRpaLockIntent \/ CallDeriveBlindAndKey

SpecPed == PedInit /\ [][PedNext]_vars

(***************************************************************************)
(* Properties of the RPA derivation (SpecRpa)                              *)
(***************************************************************************)
RpaBothDerived ==
    /\ rpa.pc = "start" /\ rpa.sent /\ rpa.received
    /\ rpa.intent.ok /\ ValidScalar(rpa.oneTimePriv)

\* C1: whenever the sender's deriveRpaLockIntent and the receiver's
\* deriveRpaOneTimePrivReceiver both succeed on matching inputs, HASH160 of the
\* public key of the receiver's one-time private key equals the sender's
\* childHash160, for every mode, outpoint and index.
C1_DerivationSymmetry ==
    RpaBothDerived =>
        Hash160(GetPublicKey(rpa.oneTimePriv)) = rpa.intent.childHash160

\* both sides derived, with distinct scan and spend keys, a non-zero index and
\* a mode other than the demo's default
C1_Witness ==
    /\ RpaBothDerived
    /\ rpa.scanPriv # rpa.spendPriv
    /\ rpa.index = 1
    /\ rpa.mode = RPA_MODE_PQ_VAULT
    /\ GetPublicKey(rpa.oneTimePriv) = rpa.intent.childPubkey

(***************************************************************************)
(* Properties of the range proof and the envelope (SpecZk)                 *)
(***************************************************************************)
\* every scalar and point that generateSigmaRangeProof and verifySigmaRangeProof
\* derive from hashes is one the curve library accepts (on secp256k1 a hash
\* misses this with negligible probability)
HashDerivedInRange(v, seedBytes) ==
    LET r == AggregateBlinding(seedBytes, BITS)
        proofs == [i \in 1..BITS |-> BitProof(v, seedBytes, i - 1)]
    IN  /\ ValidScalar(r)
        /\ PAdd(PMul(H, v), PMul(G, r)) # ZERO
        /\ \A i \in 1..BITS :
              /\ ~proofs[i].thrown
              /\ ValidScalar(proofs[i].e0) /\ ValidScalar(proofs[i].z0)
              /\ ValidScalar(proofs[i].e1) /\ ValidScalar(proofs[i].z1)

\* C2: for every value 0 <= v < 2^BITS and every seed,
\* verifySigmaRangeProof(generateSigmaRangeProof(v, seed)) returns true.
C2_RoundTripTrue ==
    (zkPc = "roundtrip" /\ HashDerivedInRange(zkIn.value, zkIn.zkSeed)) =>
        verdict = "true"

\* the position of the first byte of the serialized proof inside the envelope
CoreStart == Len(zkOut.envelope) - ProofLen + 1

\* C3: an envelope with one bit of its serialized proof flipped is never
\* accepted, and with the last byte XOR 1 verifyAmountProofEnvelope returns false.
C3_BitFlipReturnsFalse ==
    (wireKind = "flipped" /\ verdict # "none" /\ wirePos >= CoreStart) =>
        /\ verdict # "true"
        /\ (wirePos = Len(wire) /\ wire[wirePos] = XorBit(zkOut.envelope[wirePos], 0))
              => verdict = "false"

\* C4: an envelope with a bit flipped in any one of its bytes (magic, length
\* prefixes, header fields, core proof) is not accepted by
\* verifyAmountProofEnvelope.
C4_ByteFlipFails ==
    (wireKind = "flipped" /\ verdict # "none") => verdict # "true"

\* C10: parseProofEnvelope throws on every strict prefix of a valid envelope and
\* on every valid envelope followed by trailing bytes.
C10_ParseRejectsWrongLength ==
    (wireKind \in { "truncated", "extended" } /\ parsed.st # "none") =>
        parsed.st = "throw"

(***************************************************************************)
(* Properties of the chained flow (SpecFlow)                               *)
(***************************************************************************)
HasEvent(tx, stage) == \E i \in 1..Len(flow.log) : flow.log[i] = << tx, stage >>

LastEvent == IF flow.log = << >> THEN << "none", "none" >> ELSE flow.log[Len(flow.log)]

\* the stages transaction tx has reached, in the order of the log
StagesOf(tx) ==
    LET OfTx(e) == e[1] = tx
        events == SelectSeq(flow.log, OfTx)
    IN  [i \in 1..Len(events) |-> events[i][2]]

IsPrefix(s, t) == Len(s) <= Len(t) /\ s = SubSeq(t, 1, Len(s))

\* s follows order from its start, possibly ended by a failure
Follows(s, order) ==
    \/ IsPrefix(s, order)
    \/ /\ s # << >>
       /\ s[Len(s)] = "Failed"
       /\ IsPrefix(SubSeq(s, 1, Len(s) - 1), order)

CovenantSpendOrder == << "Built", "GuardVerified", "ValueVerified", "Signed", "Broadcast" >>
PlainSpendOrder == << "Built", "Signed", "Broadcast" >>

\* C5: buildBobReturnTx signs (and so broadcasts) only after both local checks
\* have passed: HASH160(one-time pub) equals the pay hash of the redeem script
\* and the value of output 0 equals the decrypted amount.
C5_NoSignatureWithoutChecks ==
    (HasEvent("return", "Signed") \/ HasEvent("return", "Broadcast")) =>
        /\ flow.guardOk /\ flow.valueOk
        /\ GuardCheckPasses(flow.redeemScript, GetPublicKey(flow.oneTimePriv))
        /\ ValueCheckPasses(flow.returnTx.outputs[1].value, flow.decryptedAmount)

\* the return transaction was signed and broadcast after both checks
C5_Witness ==
    /\ HasEvent("return", "Signed") /\ HasEvent("return", "Broadcast")
    /\ flow.guardOk /\ flow.valueOk
    /\ Len(flow.returnTx.outputs) = 2

\* what Bob regenerates disagrees with the chain: the commitment with the NFT
\* commitment, or the P2SH script built on the regenerated proof hash with the
\* script of the covenant output
RegenMismatch ==
    IF ~RegenProof(flow).ok \/ ~ValidScalar(flow.oneTimePriv) THEN TRUE
    ELSE \/ PointToBytes(RegenProof(flow).C) # chain.covenant.token_data.commitment
         \/ ExpectedCovenant(flow.oneTimePriv, RegenProofHash(flow, chain)).covenantScript
               # SliceLast(chain.covenant.scriptPubKey, P2SHLen)

\* C6: when the regenerated commitment or proof hash disagrees with the value
\* committed on the chain, the return transaction is neither built nor signed.
C6_NoSignatureOnMismatch ==
    (HasEvent("return", "Built") \/ HasEvent("return", "Signed")) => ~RegenMismatch

\* the chain reported another commitment than the one Alice funded; the flow
\* ended with an error of the return transaction and nothing was signed for it
C6_Witness ==
    /\ HasEvent("fund", "Broadcast")
    /\ flow.decryptedAmount = flow.sendAmount
    /\ RegenProof(flow).ok
    /\ PointToBytes(RegenProof(flow).C) # chain.covenant.token_data.commitment
    /\ flow.pc = "aborted"
    /\ LastEvent = << "return", "Failed" >>
    /\ ~HasEvent("return", "Signed")

\* C7 (as stated): every spend goes Built, GuardVerified, ValueVerified, Signed,
\* Broadcast in that order; nothing is signed before both checks have passed.
C7_EverySpendVerified ==
    \A tx \in { "fund", "return", "spend" } : Follows(StagesOf(tx), CovenantSpendOrder)

\* C7 (amended): the covenant spend built by buildBobReturnTx goes Built,
\* GuardVerified, ValueVerified, Signed, Broadcast in that order and a failure
\* ends it; the funding transaction and the RPA spend go Built, Signed,
\* Broadcast; no transaction is broadcast before it is signed.
C7_SpendOrder ==
    /\ Follows(StagesOf("return"), CovenantSpendOrder)
    /\ Follows(StagesOf("fund"), PlainSpendOrder)
    /\ Follows(StagesOf("spend"), PlainSpendOrder)

\* all three transactions were broadcast
C7_Witness ==
    /\ flow.pc = "done"
    /\ StagesOf("return") = CovenantSpendOrder
    /\ StagesOf("fund") = PlainSpendOrder
    /\ StagesOf("spend") = PlainSpendOrder

\* C8: a failure in one transaction of the chain is the last thing the flow
\* does: no stage of any transaction is reached after it.
C8_FailureAbortsFlow ==
    \A i \in 1..Len(flow.log) :
        flow.log[i][2] = "Failed" => (i = Len(flow.log) /\ flow.pc = "aborted")

\* the return transaction failed at broadcast after the funding went through;
\* the RPA spend was never built
C8_Witness ==
    /\ flow.pc = "aborted"
    /\ HasEvent("fund", "Broadcast")
    /\ HasEvent("return", "Signed")
    /\ LastEvent = << "return", "Failed" >>
    /\ ~HasEvent("spend", "Built")

\* HASH160 of the public key of priv, << >> when priv is not a valid key
KeyHash(priv) == IF ValidScalar(priv) THEN Hash160(GetPublicKey(priv)) ELSE << >>

\* the guard key Bob derives on his side for the covenant output
BobGuardPriv ==
    DeriveRpaOneTimePrivReceiver(flow.bob.scan, flow.bob.spend, GetPublicKey(flow.alice.priv),
                                 flow.aliceUtxo.txid, flow.aliceUtxo.vout, COVENANT_INDEX)

\* the hash Alice commits to for Bob
SenderCommitted ==
    DeriveRpaLockIntent(RPA_MODE_CONF_ASSET, flow.alice.priv, GetPublicKey(flow.bob.priv),
                        GetPublicKey(flow.bob.priv), flow.aliceUtxo.txid,
                        flow.aliceUtxo.vout, COVENANT_INDEX)

\* C9: nothing is signed while the hash of the receiver-derived one-time key
\* differs from the hash the sender committed: the funding and the return
\* transaction need Bob's derived guard hash to be the one Alice committed, the
\* RPA spend needs Alice's derived hash to be the one in the return output.
C9_NoSignatureOnDerivationMismatch ==
    /\ (HasEvent("fund", "Signed") \/ HasEvent("return", "Signed")) =>
           KeyHash(BobGuardPriv) = flow.guardHash
    /\ HasEvent("return", "Signed") => KeyHash(flow.oneTimePriv) = flow.guardHash
    /\ HasEvent("spend", "Signed") =>
           KeyHash(flow.aliceDerivedPriv)
               = Slice(SplitTokenPrefix(chain.returnOut0.scriptPubKey).locking,
                       3, 3 + Hash160Len)

\* Bob's scan key is not the key of his paycode: both derivations succeed, the
\* hashes differ, and the flow ended with an error before the funding was built
C9_Witness ==
    /\ flow.pc = "aborted"
    /\ flow.log = << << "fund", "Failed" >> >>
    /\ SenderCommitted.ok
    /\ ValidScalar(BobGuardPriv)
    /\ KeyHash(BobGuardPriv) # SenderCommitted.childHash160

(***************************************************************************)
(* Properties of the envelope codec (SpecCodec)                            *)
(***************************************************************************)
\* one length-prefixed field read at offset off: its bytes and the next offset
ReadV(bytes, off) ==
    [body |-> Slice(bytes, off + DecodeVarInt(bytes, off).length,
                    off + DecodeVarInt(bytes, off).length + DecodeVarInt(bytes, off).value),
     next |-> off + DecodeVarInt(bytes, off).length + DecodeVarInt(bytes, off).value]

\* one uint64le field read at offset off
ReadU64(bytes, off) ==
    [value |-> Slice(bytes, off, off + U64Len)[1] + 256 * Slice(bytes, off, off + U64Len)[2],
     next |-> off + U64Len]

\* the header read back field by field in the order buildProofEnvelope wrote it;
\* an empty asset id reads as null
HeaderFieldsAfterAsset(tag, bits, ephem, h, asset, idx, extra) ==
    [protocolTag |-> tag.body, rangeBits |-> bits.value, ephemPub33 |-> ephem.body,
     H33 |-> h.body,
     assetId32 |-> IF asset.body = << >> THEN Null ELSE Some(asset.body),
     outIndex |-> idx.value, extraCtx |-> extra.body]

HeaderFieldsAfterH(header, tag, bits, ephem, h, asset) ==
    HeaderFieldsAfterAsset(tag, bits, ephem, h, asset, ReadU64(header, asset.next),
                           ReadV(header, ReadU64(header, asset.next).next))

HeaderFieldsAfterBits(header, tag, bits, ephem) ==
    HeaderFieldsAfterH(header, tag, bits, ephem, ReadV(header, ephem.next),
                       ReadV(header, ReadV(header, ephem.next).next))

HeaderFields(header) ==
    HeaderFieldsAfterBits(header, ReadV(header, 0), ReadU64(header, ReadV(header, 0).next),
                          ReadV(header, ReadU64(header, ReadV(header, 0).next).next))

\* the parser returned the core and the header bytes exactly as they were built
CodecBytesExact ==
    /\ codec.parsed.st = "ok"
    /\ codec.parsed.core = codec.core
    /\ MAGIC \o Vbytes(codec.parsed.header) \o Vbytes(codec.parsed.core) = codec.envelope

\* C11: for all field values the builder accepts, parseProofEnvelope of the
\* built envelope gives back the core proof bytes and the header fields
\* (protocol tag, range bits, ephemeral key, H, asset id, output index, extra
\* context) exactly.
C11_RoundTripFields ==
    codec.pc = "parsed" =>
        /\ CodecBytesExact
        /\ HeaderFields(codec.parsed.header) = codec.fields

(***************************************************************************)
(* Properties of the regeneration on the receiver's side (SpecFlow)        *)
(***************************************************************************)
\* the network reported the covenant output as the sender funded it
HonestTransfer == flow.log # << >> /\ chain.covenant = FundingOutput(flow)

BothDerived == pair.pc = "done" /\ pair.sa.ok /\ pair.sb.ok

DifferentOutpoint == pair.a.txid # pair.b.txid \/ pair.a.vout # pair.b.vout

C18_SessionKeyPerOutpoint ==
    (BothDerived /\ DifferentOutpoint) => pair.sa.sessionKey # pair.sb.sessionKey

\* two session keys of one secret for outpoints of one transaction
C18_Witness ==
    /\ BothDerived
    /\ pair.a.txid = pair.b.txid
    /\ pair.a.vout = 0
    /\ pair.b.vout = 1
    /\ pair.sa.sessionKey # pair.sb.sessionKey
    /\ pair.sa.sessionKey = DeriveRpaSessionKeys(pair.sharedSecret, pair.a.txid, 0).sessionKey

(***************************************************************************)
(* Properties of the redeem script and its extractors (SpecScript)         *)
(***************************************************************************)
\* where the guard-hash push starts (0-based) when the script has, or has
\* not, the proof-hash push and the drop in front
GuardPushAt(withProof) == IF withProof THEN HashLen + 2 ELSE 0

\* the header of s is the one createCovenant writes, with or without the
\* proof-hash push
HeaderAs(s, withProof) ==
    /\ Len(s) >= GuardPushAt(withProof) + 1 + Hash160Len
    /\ withProof => s[1] = OP_PUSH32 /\ s[HashLen + 2] = OP_DROP
    /\ s[GuardPushAt(withProof) + 1] = OP_PUSH20

WellFormedHeader(s) == HeaderAs(s, TRUE) \/ HeaderAs(s, FALSE)

GuardHashOf(s) ==
    SubSeq(s, GuardPushAt(HeaderAs(s, TRUE)) + 2, GuardPushAt(HeaderAs(s, TRUE)) + 1 + Hash160Len)

\* C14: extractPayHashFromRedeemScript returns the 20-byte guard hash that
\* follows the optional proof-hash push and drop, and throws on every other
\* header (wrong push opcode, missing drop, too short); extractLeadingPush20
\* returns that hash or nothing, never a guess.
C14_ExtractThrowsOnMalformed ==
    /\ script.pc \in { "leading", "done" } =>
          /\ script.result.ok <=> WellFormedHeader(script.bytes)
          /\ script.result.ok => script.result.payHash20 = GuardHashOf(script.bytes)
    /\ script.pc = "done" =>
          script.leading = (IF WellFormedHeader(script.bytes)
                            THEN GuardHashOf(script.bytes) ELSE << >>)

\* a script whose drop was replaced: both extractors refuse it
C14_Witness ==
    /\ script.pc = "done"
    /\ script.proofHash32 # << >>
    /\ Len(script.bytes) = Len(script.cov.covenantBytecode)
    /\ script.bytes[HashLen + 2] # OP_DROP
    /\ ~script.result.ok
    /\ script.leading = << >>

\* the guard as a 20-byte hash: HASH160 of a public key, or the hash given
GuardHash20 ==
    IF Len(script.bobKeyOrHash) = PointLen THEN Hash160(script.bobKeyOrHash)
    ELSE script.bobKeyOrHash

\* C15: createCovenant returns the redeem script
\* [0x20 || proofHash32 || OP_DROP] || 0x14 || guardHash20 || template, the
\* bracket present exactly when a proof hash was given, and the locking script
\* OP_HASH160 <HASH160(redeem script)> OP_EQUAL.
C15_CovenantLayout ==
    (script.pc # "create" /\ script.cov.ok) =>
        /\ script.cov.covenantBytecode =
              (IF script.proofHash32 # << >>
               THEN << HashLen >> \o script.proofHash32 \o << OP_DROP >> ELSE << >>)
                \o << Hash160Len >> \o GuardHash20 \o TemplateBytecode
        /\ Len(script.cov.covenantScript) = P2SHLen
        /\ script.cov.covenantScript[1] = OP_HASH160
        /\ script.cov.covenantScript[2] = Hash160Len
        /\ SubSeq(script.cov.covenantScript, 3, 2 + Hash160Len)
              = Hash160(script.cov.covenantBytecode)
        /\ script.cov.covenantScript[P2SHLen] = OP_EQUAL

\* a covenant made from a public key and a proof hash, read back by the extractor
C15_Witness ==
    /\ script.pc = "done"
    /\ Len(script.bobKeyOrHash) = PointLen
    /\ script.proofHash32 # << >>
    /\ script.bytes = script.cov.covenantBytecode
    /\ script.result.payHash20 = GuardHash20

(***************************************************************************)
(* Properties of the signing steps (SpecFlow)                              *)
(***************************************************************************)
\* the sighash of the input an embedded signature belongs to, from the
\* transaction as it stands
InputSighash(e) ==
    IF e.tx = "fund" THEN FundSighash(flow)
    ELSE IF e.tx = "return" /\ e.input = 0 THEN CovenantSighash(flow, chain)
    ELSE IF e.tx = "return" THEN FeeSighash(flow)
    ELSE SpendSighash(flow, chain)

\* the signature and the public key as they stand in the scriptSig
EmbeddedSig(e) == Slice(e.scriptSig, 1, 1 + SigLen)
EmbeddedPub(e) == SliceLast(e.scriptSig, PointLen)

InputsOf(tx) == IF tx = "return" THEN { 0, 1 } ELSE { 0 }

\* C16: every signature placed in a transaction input verifies against the
\* sighash of that input and the public key next to it, because it was verified
\* before it was embedded; when the local verification fails the transaction
\* is neither completed as signed nor broadcast.
C16_SignaturesVerifiedBeforeEmbedding ==
    /\ \A e \in flow.scriptSigs :
          /\ e.sighash = InputSighash(e)
          /\ BchSchnorrVerify(EmbeddedSig(e), e.sighash, EmbeddedPub(e))
    /\ \A tx \in { "fund", "return", "spend" } :
          HasEvent(tx, "Signed") =>
              \A i \in InputsOf(tx) : \E e \in flow.scriptSigs : e.tx = tx /\ e.input = i
    /\ flow.verifyFailed # "none" =>
          /\ flow.pc = "aborted"
          /\ ~HasEvent(flow.verifyFailed, "Signed")
          /\ ~HasEvent(flow.verifyFailed, "Broadcast")

\* the funding and the return transaction went out with verified signatures;
\* the signature of the spend failed its verification and the flow stopped
C16_Witness ==
    /\ flow.verifyFailed = "spend"
    /\ Cardinality(flow.scriptSigs) = 3
    /\ HasEvent("return", "Broadcast")
    /\ ~HasEvent("spend", "Signed")

AmountOnH(v, r) == ToCompressed(PAdd(PMul(H, v), PMul(G, r % n)))

\* a call of pedersenCommit64 without an asset id that returned a point
CommittedNoAsset(c) == c.fn = "pedersenCommit64" /\ c.arg[3] = 0 /\ c.out.st = "ok"

\* C19: every Pedersen commitment the code constructs for amount v and
\* blinding r is v * H + r * G, the amount on H and the blinding on G: in
\* pedersenCommit64, in pedersenCommit and in the aggregate commitment of the
\* Sigma range proof.
C19_CommitmentIsVHPlusRG ==
    \A i \in 1..Len(ped.calls) :
        /\ CommittedNoAsset(ped.calls[i])
              => ped.calls[i].out = AmountOnH(ped.calls[i].arg[1], ped.calls[i].arg[2])
        /\ (ped.calls[i].fn = "pedersenCommit" /\ ped.calls[i].out.st = "ok")
              => ped.calls[i].out = AmountOnH(ped.calls[i].arg[1], ped.calls[i].arg[2])
        /\ (ped.calls[i].fn = "generateSigmaRangeProof" /\ ped.calls[i].out.st = "ok")
              => Slice(ped.calls[i].out.bytes, 0, PointLen)
                   = AmountOnH(ped.calls[i].arg[1],
                               AggregateBlinding(Tail(ped.calls[i].arg), BITS)).bytes

\* C20: for every value 0 <= v < 2^64 and every blinding scalar,
\* pedersenCommit64 returns a commitment that serialises to a 33-byte valid
\* compressed point.
C20_CommitmentAlwaysValidPoint ==
    \A i \in 1..Len(ped.calls) :
        (ped.calls[i].fn = "pedersenCommit64" /\ ped.calls[i].arg[1] \in 0..MaxU64) =>
            /\ ped.calls[i].out.st = "ok"
            /\ Len(ped.calls[i].out.bytes) = PointLen
            /\ PointFromBytes(ped.calls[i].out.bytes) # -1

\* two logged calls of pedersenCommit64 with one value and one asset id whose
\* blindings are different scalars
TwoBlindings(a, b) ==
    /\ a.fn = "pedersenCommit64" /\ b.fn = "pedersenCommit64"
    /\ a.arg[1] = b.arg[1]
    /\ SubSeq(a.arg, 3, Len(a.arg)) = SubSeq(b.arg, 3, Len(b.arg))
    /\ a.arg[2] % n # b.arg[2] % n

\* C21: for one value and two distinct blindings pedersenCommit64 returns two
\* different commitments.
C21_DistinctBlindingsDiffer ==
    \A i, j \in 1..Len(ped.calls) :
        TwoBlindings(ped.calls[i], ped.calls[j]) =>
            /\ ped.calls[i].out.st = "ok"
            /\ ped.calls[j].out.st = "ok"
            /\ ped.calls[i].out.bytes # ped.calls[j].out.bytes

\* the outpoint of the covenant output of the funding transaction
CovenantOutpoint(f) == << TxidOf(FundOutputs(f)), FundingOutput(f).tx_pos >>

\* the inputs of the three transactions of the flow, as outpoints
FundInputs(f) == << << f.aliceUtxo.txid, f.aliceUtxo.vout >> >>

\* buildBobReturnTx: the covenant UTXO found under the funding txid, then the
\* fee UTXO of Bob
ReturnInputs(f, c) ==
    << << TxidOf(FundOutputs(f)), c.covenant.tx_pos >>, << f.bobUtxo.txid, f.bobUtxo.vout >> >>

\* a final spend that takes the covenant UTXO once more
SpendInputsCovenant(f, c) == << << TxidOf(FundOutputs(f)), c.covenant.tx_pos >> >>

\* buildAliceRpaSpendTx: output 0 of the return transaction
SpendInputs(f, c) == << << TxidOf(f.returnTx.outputs), 0 >> >>

InputsOfTx(tx) ==
    IF tx = "fund" THEN FundInputs(flow)
    ELSE IF tx = "return" THEN ReturnInputs(flow, chain)
    ELSE SpendInputs(flow, chain)

\* the broadcasts in the log that have the covenant outpoint among their inputs
CovenantSpends ==
    { i \in 1..Len(flow.log) :
          /\ flow.log[i][2] = "Broadcast"
          /\ \E k \in 1..Len(InputsOfTx(flow.log[i][1])) :
                InputsOfTx(flow.log[i][1])[k] = CovenantOutpoint(flow) }

\* the broadcasts of the funding transaction in the log
CovenantCreations == { i \in 1..Len(flow.log) : flow.log[i] = << "fund", "Broadcast" >> }

PSBT_RPA_PROP_TYPE == 252
PSBT_RPA_PREFIX == << 98, 99, 104, 45, 114, 112, 97, 45, 118, 48 >>    \* 'bch-rpa-v0'
PSBT_RPA_PREFIX_LEN == Len(PSBT_RPA_PREFIX)
SUBTYPE_CONTEXT == 1
SUBTYPE_PROOF_HASH == 2
SUBTYPE_ZK_SEED == 3
CONF_ASSET == 3
RPA_CONTEXT_V1_LEN == 77
TXID_BYTES == 32
PUBKEY_BYTES == 33
HASH_BYTES == 32

Fill(len, b) == [i \in 1..len |-> b]

\* buf.writeUInt32LE(v >>> 0, off): the four low bytes of v, lowest first
WriteUInt32LE(v) ==
    << v % 256, (v \div 256) % 256, (v \div 65536) % 256, (v \div 16777216) % 256 >>

\* the same four bytes, highest first
WriteUInt32BE(v) ==
    << (v \div 16777216) % 256, (v \div 65536) % 256, (v \div 256) % 256, v % 256 >>

\* data.readUInt32LE(off)
ReadUInt32LE(data, off) ==
    data[off + 1] + 256 * data[off + 2] + 65536 * data[off + 3] + 16777216 * data[off + 4]

NoCtx == [version |-> 0, mode |-> 0, index |-> 0, prevoutVout |-> 0,
          prevoutTxid |-> << >>, senderPubkey |-> << >>]

\* an encoder that writes the two counters highest byte first
EncodeRpaContextBigEndian(ctx) ==
    IF ctx.version # 1 THEN BytesOut(FALSE, << >>)
    ELSE IF Len(ctx.prevoutTxid) # TXID_BYTES THEN BytesOut(FALSE, << >>)
    ELSE IF Len(ctx.senderPubkey) # PUBKEY_BYTES THEN BytesOut(FALSE, << >>)
    ELSE BytesOut(TRUE, << ctx.version % 256, ctx.mode % 256, 0, 0 >>
                        \o WriteUInt32BE(ctx.index) \o WriteUInt32BE(ctx.prevoutVout)
                        \o ctx.prevoutTxid \o ctx.senderPubkey)

EncodeRpaContextV1(ctx) ==
    IF ctx.version # 1 THEN BytesOut(FALSE, << >>)
    ELSE IF Len(ctx.prevoutTxid) # TXID_BYTES THEN BytesOut(FALSE, << >>)
    ELSE IF Len(ctx.senderPubkey) # PUBKEY_BYTES THEN BytesOut(FALSE, << >>)
    ELSE BytesOut(TRUE, << ctx.version % 256, ctx.mode % 256, 0, 0 >>
                        \o WriteUInt32LE(ctx.index) \o WriteUInt32LE(ctx.prevoutVout)
                        \o ctx.prevoutTxid \o ctx.senderPubkey)

DecodeRpaContextV1(data) ==
    IF Len(data) # RPA_CONTEXT_V1_LEN THEN [st |-> "throw", ctx |-> NoCtx]
    ELSE IF data[1] # 1 THEN [st |-> "throw", ctx |-> NoCtx]
    ELSE [st |-> "ok",
          ctx |-> [version |-> data[1], mode |-> data[2],
                   index |-> ReadUInt32LE(data, 4), prevoutVout |-> ReadUInt32LE(data, 8),
                   prevoutTxid |-> Slice(data, 12, 44), senderPubkey |-> Slice(data, 44, 77)]]

\* a hex string is the sequence of its characters: 0..15 for a hex digit, 16
\* for any other character; strings are taken trimmed and without 0x
NonHex == 16
FromHex(h) == [i \in 1..(Len(h) \div 2) |-> 16 * h[2 * i - 1] + h[2 * i]]
ToHex(b) ==
    [i \in 1..(2 * Len(b)) |-> IF i % 2 = 1 THEN b[(i + 1) \div 2] \div 16 ELSE b[i \div 2] % 16]

\* hexToBufExact(hex, len, label), and hex32(hex, label) with len = 32
HexToBufExact(hex, len) ==
    IF Len(hex) # len * 2 THEN BytesOut(FALSE, << >>)
    ELSE IF \E i \in 1..Len(hex) : hex[i] = NonHex THEN BytesOut(FALSE, << >>)
    ELSE BytesOut(TRUE, FromHex(hex))

Hex32(hex) == HexToBufExact(hex, HASH_BYTES)

MakeRpaContextV1FromHex(input) ==
    IF ~HexToBufExact(input.prevoutTxidHex, TXID_BYTES).st = "ok"
       \/ ~HexToBufExact(input.senderPubkeyHex, PUBKEY_BYTES).st = "ok"
    THEN [st |-> "throw", ctx |-> NoCtx]
    ELSE [st |-> "ok",
          ctx |-> [version |-> 1, mode |-> input.mode, index |-> input.index,
                   prevoutVout |-> input.prevoutVout,
                   prevoutTxid |-> HexToBufExact(input.prevoutTxidHex, TXID_BYTES).bytes,
                   senderPubkey |-> HexToBufExact(input.senderPubkeyHex, PUBKEY_BYTES).bytes]]

BuildRpaProprietaryKey(subType) ==
    << PSBT_RPA_PROP_TYPE, PSBT_RPA_PREFIX_LEN >> \o PSBT_RPA_PREFIX \o << subType % 256 >>

\* parseRpaProprietaryKey(key): the subType of one of our keys, 0 for null
ParseRpaProprietaryKey(key) ==
    IF Len(key) < 2 + PSBT_RPA_PREFIX_LEN + 1 THEN 0
    ELSE IF key[1] # PSBT_RPA_PROP_TYPE THEN 0
    ELSE IF key[2] # PSBT_RPA_PREFIX_LEN THEN 0
    ELSE IF Slice(key, 2, 2 + PSBT_RPA_PREFIX_LEN) # PSBT_RPA_PREFIX THEN 0
    ELSE IF key[2 + PSBT_RPA_PREFIX_LEN + 1]
                \in { SUBTYPE_CONTEXT, SUBTYPE_PROOF_HASH, SUBTYPE_ZK_SEED }
    THEN key[2 + PSBT_RPA_PREFIX_LEN + 1]
    ELSE 0

\* psbt.outputs is a sequence of outputs, an output the sequence of its
\* unknownKeyVals; outputIndex counts from 0
Threw(outputs) == [st |-> "throw", outputs |-> outputs]
Pushed(outputs, outputIndex, key, value) ==
    [st |-> "ok",
     outputs |-> [outputs EXCEPT ![outputIndex + 1] = Append(@, [key |-> key, value |-> value])]]

HasOutput(outputs, outputIndex) == outputIndex >= 0 /\ outputIndex < Len(outputs)

AttachRpaContextToPsbtOutput(outputs, outputIndex, ctx) ==
    IF ~HasOutput(outputs, outputIndex) THEN Threw(outputs)
    ELSE IF EncodeRpaContextV1(ctx).st # "ok" THEN Threw(outputs)
    ELSE Pushed(outputs, outputIndex, BuildRpaProprietaryKey(SUBTYPE_CONTEXT),
                EncodeRpaContextV1(ctx).bytes)

AttachProofHashToPsbtOutput(outputs, outputIndex, proofHash32) ==
    IF Len(proofHash32) # HASH_BYTES THEN Threw(outputs)
    ELSE IF ~HasOutput(outputs, outputIndex) THEN Threw(outputs)
    ELSE Pushed(outputs, outputIndex, BuildRpaProprietaryKey(SUBTYPE_PROOF_HASH), proofHash32)

AttachZkSeedToPsbtOutput(outputs, outputIndex, zkSeed32) ==
    IF Len(zkSeed32) # HASH_BYTES THEN Threw(outputs)
    ELSE IF ~HasOutput(outputs, outputIndex) THEN Threw(outputs)
    ELSE Pushed(outputs, outputIndex, BuildRpaProprietaryKey(SUBTYPE_ZK_SEED), zkSeed32)

\* the body of the loop of attachRpaMetadataToPsbt for one descriptor; the PSBT
\* is changed in place, so what was pushed before a throw stays
AttachOneDescriptor(outputs, d) ==
    LET made == MakeRpaContextV1FromHex(d)
        withCtx == AttachRpaContextToPsbtOutput(outputs, d.outputIndex, made.ctx)
        proofHash == Hex32(d.proofHashHex)
        zkSeed == Hex32(d.zkSeedHex)
        withHash == AttachProofHashToPsbtOutput(withCtx.outputs, d.outputIndex, proofHash.bytes)
    IN  IF made.st # "ok" THEN Threw(outputs)
        ELSE IF withCtx.st # "ok" THEN withCtx
        ELSE IF proofHash.st # "ok" \/ zkSeed.st # "ok" THEN Threw(withCtx.outputs)
        ELSE IF withHash.st # "ok" THEN withHash
        ELSE AttachZkSeedToPsbtOutput(withHash.outputs, d.outputIndex, zkSeed.bytes)

RECURSIVE AttachRpaMetadataToPsbt(_, _)
AttachRpaMetadataToPsbt(outputs, rpaOutputs) ==
    IF rpaOutputs = << >> THEN [st |-> "ok", outputs |-> outputs]
    ELSE IF AttachOneDescriptor(outputs, Head(rpaOutputs)).st # "ok"
    THEN AttachOneDescriptor(outputs, Head(rpaOutputs))
    ELSE AttachRpaMetadataToPsbt(AttachOneDescriptor(outputs, Head(rpaOutputs)).outputs,
                                 Tail(rpaOutputs))

MaxOps == 3

PsbtTxid == Fill(TXID_BYTES, 249)
PsbtPub == << 2 >> \o Fill(PUBKEY_BYTES - 1, 239)

Ctx(version, mode, index, prevoutVout, prevoutTxid, senderPubkey) ==
    [version |-> version, mode |-> mode, index |-> index, prevoutVout |-> prevoutVout,
     prevoutTxid |-> prevoutTxid, senderPubkey |-> senderPubkey]

\* contexts tried: the ones of the tests, counters of several bytes, a mode
\* above one byte, a txid and a public key of a wrong length, another version
PsbtContexts ==
    { Ctx(1, CONF_ASSET, 0, 0, PsbtTxid, PsbtPub),
      Ctx(1, CONF_ASSET, 258, 1, PsbtTxid, PsbtPub),
      Ctx(1, 255, 16909060, 65536, PsbtTxid, PsbtPub),
      Ctx(1, 256 + CONF_ASSET, 1, 0, PsbtTxid, PsbtPub),
      Ctx(1, CONF_ASSET, 0, 0, Fill(TXID_BYTES - 1, 249), PsbtPub),
      Ctx(1, CONF_ASSET, 0, 0, PsbtTxid, PsbtPub \o << 0 >>),
      Ctx(2, CONF_ASSET, 0, 0, PsbtTxid, PsbtPub) }

Descriptor(outputIndex, index, prevoutTxidHex, proofHashHex, zkSeedHex) ==
    [outputIndex |-> outputIndex, mode |-> CONF_ASSET, index |-> index, prevoutVout |-> 0,
     prevoutTxidHex |-> prevoutTxidHex, senderPubkeyHex |-> ToHex(PsbtPub),
     proofHashHex |-> proofHashHex, zkSeedHex |-> zkSeedHex]

GoodHash == ToHex(Fill(HASH_BYTES, 17))
GoodSeed == ToHex(Fill(HASH_BYTES, 34))
GoodDescriptor(outputIndex) == Descriptor(outputIndex, 1, ToHex(PsbtTxid), GoodHash, GoodSeed)

\* descriptor lists tried: valid ones, a proofHashHex that is too short, a
\* zkSeedHex with a character that is no hex digit, a bad txid, an output
\* that does not exist, each alone or after a valid descriptor
PsbtDescriptorLists ==
    { << GoodDescriptor(0) >>,
      << GoodDescriptor(0), GoodDescriptor(1) >>,
      << Descriptor(0, 1, ToHex(PsbtTxid), Fill(2 * HASH_BYTES - 2, 1), GoodSeed) >>,
      << GoodDescriptor(0),
         Descriptor(1, 1, ToHex(PsbtTxid), GoodHash, Fill(2 * HASH_BYTES, NonHex)) >>,
      << Descriptor(1, 1, Fill(2 * TXID_BYTES + 2, 1), GoodHash, GoodSeed) >>,
      << GoodDescriptor(0), GoodDescriptor(2) >> }

NoBytesOut == [st |-> "none", bytes |-> << >>]
NoDecoded == [st |-> "none", ctx |-> NoCtx]

LastCall(fn, st, before, ctx, enc, dec) ==
    [fn |-> fn, st |-> st, before |-> before, ctx |-> ctx, enc |-> enc, dec |-> dec]

PsbtInit ==
    /\ ZkIdle
    /\ LibIdleButPsbt
    /\ rpa = IdleRpa
    /\ flow = IdleFlow
    /\ chain = NoChain
    /\ psbt = [pc |-> "run", outputs |-> << << >>, << >> >>, ops |-> 0,
               last |-> LastCall("none", "none", << >>, NoCtx, NoBytesOut, NoDecoded)]

\* a call on the PSBT returned or threw: the outputs are as the call left them
PsbtCalled(fn, result) ==
    /\ psbt.pc = "run"
    /\ psbt.ops < MaxOps
    /\ psbt' = [psbt EXCEPT !.outputs = result.outputs, !.ops = @ + 1,
                            !.last = LastCall(fn, result.st, psbt.outputs, NoCtx,
                                              NoBytesOut, NoDecoded)]
    /\ UNCHANGED <<zkVars, rpa, flow, chain, codec, pair, script, ped, pool, plan>>

CallAttachRpaContext ==
    \E outputIndex \in 0..2, ctx \in PsbtContexts :
        /\ outputIndex = 0 \/ ctx.index = 258
        /\ PsbtCalled("attachRpaContextToPsbtOutput",
                      AttachRpaContextToPsbtOutput(psbt.outputs, outputIndex, ctx))

CallAttachProofHash ==
    \E args \in { << 0, HASH_BYTES >>, << 1, HASH_BYTES >>, << 0, HASH_BYTES - 1 >> } :
        PsbtCalled("attachProofHashToPsbtOutput",
                   AttachProofHashToPsbtOutput(psbt.outputs, args[1], Fill(args[2], 17)))

CallAttachZkSeed ==
    \E args \in { << 0, HASH_BYTES >>, << 2, HASH_BYTES >>, << 0, HASH_BYTES + 1 >> } :
        PsbtCalled("attachZkSeedToPsbtOutput",
                   AttachZkSeedToPsbtOutput(psbt.outputs, args[1], Fill(args[2], 34)))

CallAttachRpaMetadata ==
    \E rpaOutputs \in PsbtDescriptorLists :
        PsbtCalled("attachRpaMetadataToPsbt", AttachRpaMetadataToPsbt(psbt.outputs, rpaOutputs))

\* encodeRpaContextV1(ctx), then decodeRpaContextV1 of what it returned, whole
\* or cut to its first ten bytes
EncodedDecoded(ctx, enc, keep) ==
    LastCall("encodeRpaContextV1", enc.st, psbt.outputs, ctx, enc,
             IF enc.st = "ok" THEN DecodeRpaContextV1(Slice(enc.bytes, 0, keep)) ELSE NoDecoded)

CallEncodeDecode ==
    /\ psbt.pc = "run"
    /\ psbt.ops < MaxOps
    /\ \E ctx \in PsbtContexts, keep \in { 10, RPA_CONTEXT_V1_LEN } :
          psbt' = [psbt EXCEPT !.ops = @ + 1,
                               !.last = EncodedDecoded(ctx, EncodeRpaContextV1(ctx), keep)]
    /\ UNCHANGED <<zkVars, rpa, flow, chain, codec, pair, script, ped, pool, plan>>

PsbtNext ==
    \/ CallAttachRpaContext \/ CallAttachProofHash \/ CallAttachZkSeed
    \/ CallAttachRpaMetadata \/ CallEncodeDecode

SpecPsbt == PsbtInit /\ [][PsbtNext]_vars

\* the last call was encodeRpaContextV1 on a context whose txid and public key
\* have the lengths the encoder asks for
EncodedValidLengths ==
    /\ psbt.pc = "run"
    /\ psbt.last.fn = "encodeRpaContextV1"
    /\ Len(psbt.last.ctx.prevoutTxid) = TXID_BYTES
    /\ Len(psbt.last.ctx.senderPubkey) = PUBKEY_BYTES

\* the encoder returned 77 bytes and the decoder returns the fields of the context
RoundTripHolds ==
    /\ psbt.last.enc.st = "ok"
    /\ Len(psbt.last.enc.bytes) = 77
    /\ DecodeRpaContextV1(psbt.last.enc.bytes).st = "ok"
    /\ DecodeRpaContextV1(psbt.last.enc.bytes).ctx.mode = psbt.last.ctx.mode
    /\ DecodeRpaContextV1(psbt.last.enc.bytes).ctx.index = psbt.last.ctx.index
    /\ DecodeRpaContextV1(psbt.last.enc.bytes).ctx.prevoutVout = psbt.last.ctx.prevoutVout
    /\ DecodeRpaContextV1(psbt.last.enc.bytes).ctx.prevoutTxid = psbt.last.ctx.prevoutTxid
    /\ DecodeRpaContextV1(psbt.last.enc.bytes).ctx.senderPubkey = psbt.last.ctx.senderPubkey
    /\ psbt.last.dec \in { DecodeRpaContextV1(psbt.last.enc.bytes),
                           [st |-> "throw", ctx |-> NoCtx] }

\* C23 as stated: for every context with valid field lengths encodeRpaContextV1
\* returns exactly 77 bytes and decodeRpaContextV1 of those bytes returns the
\* same mode, index, previous outpoint and sender public key.
C23_RoundTripEveryContext == EncodedValidLengths => RoundTripHolds

\* C23 amended: for every context of version 1 with valid field lengths whose
\* mode fits one byte and whose index and vout fit 32 bits unsigned,
\* encodeRpaContextV1 returns exactly 77 bytes and decodeRpaContextV1 of those
\* bytes returns the same mode, index, previous outpoint and sender public key.
C23_RoundTripInRange ==
    (/\ EncodedValidLengths
     /\ psbt.last.ctx.version = 1
     /\ psbt.last.ctx.mode \in 0..255
     /\ psbt.last.ctx.index >= 0
     /\ psbt.last.ctx.prevoutVout >= 0) => RoundTripHolds

C23_Witness ==
    /\ EncodedValidLengths
    /\ psbt.last.ctx.index = 16909060
    /\ psbt.last.dec.st = "ok"
    /\ psbt.last.dec.ctx.index = 16909060
    /\ psbt.last.dec.ctx.prevoutVout = 65536
    /\ psbt.last.dec.ctx.mode = 255

\* C26: after any sequence of attach operations, each PSBT output holds at
\* most one entry for a given (prefix, subType) pair: no two entries of one
\* output have keys of this namespace with the same subType.
C26_OneEntryPerSubType ==
    psbt.pc = "run" =>
        \A o \in 1..Len(psbt.outputs) :
            \A i, j \in 1..Len(psbt.outputs[o]) :
                (/\ i # j
                 /\ ParseRpaProprietaryKey(psbt.outputs[o][i].key) # 0)
                    => ParseRpaProprietaryKey(psbt.outputs[o][i].key)
                           # ParseRpaProprietaryKey(psbt.outputs[o][j].key)

\* C30: attachRpaMetadataToPsbt is all-or-nothing: when the call throws, the
\* outputs of the PSBT are what they were before the call.
C30_MetadataAllOrNothing ==
    (/\ psbt.pc = "run"
     /\ psbt.last.fn = "attachRpaMetadataToPsbt"
     /\ psbt.last.st = "throw") => psbt.outputs = psbt.last.before

\* C24: whenever reducing a derived or given blinding scalar modulo the curve
\* order yields zero, the value is remapped to a non-zero sentinel before use:
\* deriveBlindAndKey never returns the blinding 0, and pedersenCommit64 on a
\* value in range and a blinding that is 0 mod n returns a commitment.
C24_ZeroScalarRemapped ==
    \A i \in 1..Len(ped.calls) :
        /\ ped.calls[i].fn = "deriveBlindAndKey" => ped.calls[i].out.bytes[1] \in 1..(n - 1)
        /\ (/\ ped.calls[i].fn = "pedersenCommit64"
            /\ ped.calls[i].arg[1] \in 1..MaxU64
            /\ ped.calls[i].arg[2] % n = 0) => ped.calls[i].out.st = "ok"

\* the H field of the header of a built envelope
EnvelopeH33(envelope) == HeaderFields(ParseProofEnvelope(envelope).header).H33

PlanDust == 3           \* DUST at the scale of this harness: remainders 1 and 2 are dust
MaxCovenantValue == 4   \* values of the covenant UTXO: 1..MaxCovenantValue
MaxFeeValue == 6        \* values of Bob's fee UTXO: 0..MaxFeeValue
MaxAmount == 4          \* decrypted amounts: 1..MaxAmount

PlanInit ==
    /\ ZkIdle
    /\ rpa = IdleRpa
    /\ flow = IdleFlow
    /\ chain = NoChain
    /\ codec = IdleCodec
    /\ pair = IdlePair
    /\ script = IdleScript
    /\ ped = IdlePed
    /\ psbt = IdlePsbt
    /\ pool = IdlePool
    /\ \E covenantValue \in 1..MaxCovenantValue, feeValue \in 0..MaxFeeValue,
          decryptedAmount \in 1..MaxAmount, rate \in 1..MaxRate :
          plan = [pc |-> "start", totalInput |-> covenantValue + feeValue,
                  decryptedAmount |-> decryptedAmount, rate |-> rate, tx |-> NoTx]

\* parts 4C and 5 of buildBobReturnTx: the fee, the change, the outputs and the
\* balance check; a throw leaves no transaction
PlanBuild ==
    /\ plan.pc = "start"
    /\ LET p == ReturnPlan(plan.totalInput, plan.decryptedAmount, plan.rate, PlanDust)
           outputs == ReturnOutputs(plan.decryptedAmount, << >>, p.change, << >>, PlanDust)
       IN  plan' = IF p.throws \/ SumValues(outputs) # plan.totalInput - p.fee
                   THEN [plan EXCEPT !.pc = "aborted"]
                   ELSE [plan EXCEPT !.pc = "built",
                                     !.tx = [outputs |-> outputs, fee |-> p.fee]]
    /\ UNCHANGED <<zkVars, rpa, flow, chain, codec, pair, script, ped, psbt, pool>>

\* part 7: both inputs of the assembled transaction are signed
PlanSign ==
    /\ plan.pc = "built"
    /\ plan' = [plan EXCEPT !.pc = "signed"]
    /\ UNCHANGED <<zkVars, rpa, flow, chain, codec, pair, script, ped, psbt, pool>>

PlanNext ==
    \/ PlanBuild
    \/ PlanSign

SpecPlan == PlanInit /\ [][PlanNext]_vars

\* what is left of the inputs after the amount and the fee that applies: the
\* fee of the transaction with a change output when the remainder over the
\* smaller fee reaches the dust limit, the smaller fee otherwise
Remainder(totalInput, amount, rate, dust) ==
    IF totalInput - amount - FeeFor(ReturnSize, rate) >= dust
    THEN totalInput - amount - FeeFor(ReturnSizeWithChange, rate)
    ELSE totalInput - amount - FeeFor(ReturnSize, rate)

PlanRemainder == Remainder(plan.totalInput, plan.decryptedAmount, plan.rate, PlanDust)

\* C27: every transaction buildBobReturnTx signs balances (its outputs sum to
\* the total input minus the fee), output 0 carries exactly the decrypted
\* amount, and a change output is present only with a value of at least DUST;
\* a positive remainder below DUST is added to the fee and leaves no change
\* output, and the function aborts before signing exactly when the remainder
\* is negative.
C27_SignedTxBalancesNoDustChange ==
    /\ plan.pc \in {"built", "signed"} =>
          /\ SumValues(plan.tx.outputs) = plan.totalInput - plan.tx.fee
          /\ plan.tx.outputs[1].value = plan.decryptedAmount
          /\ Len(plan.tx.outputs) \in {1, 2}
          /\ Len(plan.tx.outputs) = 2 <=> PlanRemainder >= PlanDust
          /\ Len(plan.tx.outputs) = 2 => plan.tx.outputs[2].value = PlanRemainder
          /\ Len(plan.tx.outputs) = 1 =>
                plan.tx.fee = plan.totalInput - plan.decryptedAmount
          /\ PlanRemainder >= 0
    /\ plan.pc = "aborted" => PlanRemainder < 0 /\ plan.tx = NoTx

\* a transaction was signed whose remainder, positive and below DUST, went to
\* the fee
C27_Witness ==
    /\ plan.pc = "signed"
    /\ PlanRemainder > 0
    /\ PlanRemainder < PlanDust
    /\ Len(plan.tx.outputs) = 1
    /\ plan.tx.fee > FeeFor(ReturnSize, plan.rate)


(***************************************************************************)
(* The pool hash-fold demo (pool_hash_fold_script.js,                      *)
(* pool_hash_fold_demo.js, index_pool_demo.js)                             *)
(***************************************************************************)
POOL_HASH_FOLD_VERSION == [V0 |-> "v0", V1 |-> "v1", V1_1 |-> "v1_1"]
PoolVersions == { POOL_HASH_FOLD_VERSION.V0, POOL_HASH_FOLD_VERSION.V1,
                  POOL_HASH_FOLD_VERSION.V1_1 }

\* cashAssemblyToBin(casmSource): the .casm sources are no part of the
\* sources in view; each version compiles to its own bytes
CashAssemblyToBin(version) ==
    IF version = POOL_HASH_FOLD_VERSION.V0 THEN << 192, 0 >>
    ELSE IF version = POOL_HASH_FOLD_VERSION.V1 THEN << 192, 1 >>
    ELSE << 192, 2 >>

\* getPoolHashFoldBytecode(version), called alone and run to its end: the
\* cached bytes, or the bytes of a compilation that are then cached
GetPoolHashFoldBytecode(cached, version, casmOk) ==
    IF version \notin PoolVersions THEN [threw |-> TRUE, bytes |-> << >>, cached |-> cached]
    ELSE IF cached[version].present
    THEN [threw |-> FALSE, bytes |-> cached[version].bytes, cached |-> cached]
    ELSE IF ~casmOk THEN [threw |-> TRUE, bytes |-> << >>, cached |-> cached]
    ELSE [threw |-> FALSE, bytes |-> CashAssemblyToBin(version),
          cached |-> [cached EXCEPT ![version] = Some(CashAssemblyToBin(version))]]

PoolCovenantValue == 4  \* covenantValue, 10_000 sats in the source
PoolSpendFee == 1       \* fee of a pool spend, 500 sats in the source
PoolFeePad == 1         \* the 50 sats added to the funding fee
MaxSpends == 4          \* limb sequences handed to demoPoolHashFold: 0..MaxSpends

\* computePoolHashFold(oldCommit, limbs): acc = HASH256(acc || limb), from the
\* last limb to the first
RECURSIVE ComputePoolHashFold(_, _)
ComputePoolHashFold(oldCommit, limbs) ==
    IF limbs = << >> THEN oldCommit
    ELSE ComputePoolHashFold(ComputeProofHash(oldCommit \o limbs[Len(limbs)]),
                             SubSeq(limbs, 1, Len(limbs) - 1))

\* opSmallInt(n) throws outside 0..16
OpSmallIntThrows(v) == v < 0 \/ v > 16
OpSmallInt(v) == IF v = 0 THEN << 0 >> ELSE << 80 + v >>

\* sha256(concat(Uint8Array.of(0x01), Uint8Array.from(normalizedLimbValues)))
NoteHash32(limbValues) == Sha256(<< 1 >> \o [i \in 1..Len(limbValues) |-> limbValues[i] % 256])

\* buildPoolHashFoldUnlockingV1(limbValues, noteHash32): one byte per limb
\* value, the note hash as the last limb and the last push
BuildPoolHashFoldUnlockingV1(limbValues, noteHash32) ==
    [threw |-> \E i \in 1..Len(limbValues) : OpSmallIntThrows(limbValues[i]),
     limbs |-> [i \in 1..Len(limbValues) |-> << limbValues[i] % 256 >>] \o << noteHash32 >>,
     unlocking |-> ConcatAll([i \in 1..Len(limbValues) |->
                                 IF OpSmallIntThrows(limbValues[i]) THEN << >>
                                 ELSE OpSmallInt(limbValues[i])])
                   \o Vbytes(noteHash32)]

\* buildPoolHashFoldUnlockingV0(): limbs 1, 2, 3, the zero commitment and the fold
BuildPoolHashFoldUnlockingV0 ==
    << 81, 82, 83 >> \o Vbytes(Fill(HashLen, 0))
    \o Vbytes(ComputePoolHashFold(Fill(HashLen, 0), << << 1 >>, << 2 >>, << 3 >> >>))

\* addTokenToScript(token, bytecode) for an NFT with a commitment
AddTokenToScript(category, commitment, bytecode) == TokenPrefix(category, commitment) \o bytecode

\* parseTx(txHex).outputs[0].token_data?.nft?.commitment
ParsedCommitment(spk, categoryLen) ==
    IF Len(spk) < categoryLen + 3 \/ spk[1] # 239 THEN Null
    ELSE Some(Slice(spk, categoryLen + 3, categoryLen + 3 + spk[categoryLen + 3]))

\* the txid the network reports for a broadcast transaction
PoolTxid(tx) ==
    Slice(ComputeProofHash(tx.inputs[1].txid \o << tx.inputs[1].vout >>
                           \o Vbytes(tx.inputs[1].scriptSig)
                           \o SerializeOutputs(tx.outputs)), 0, 2)

NoPoolUtxo ==
    [txid |-> << >>, vout |-> 0, value |-> 0, version |-> "none", tokenCategory |-> Null,
     oldCommit |-> Null]

\* the result of an async function of the demo: it threw, or it returned with
\* a transaction broadcast and a covenant UTXO for the caller
PoolThrew(cached) ==
    [threw |-> TRUE, cached |-> cached, tx |-> [inputs |-> << >>, outputs |-> << >>],
     oldCommit |-> << >>, newCommit |-> << >>, utxo |-> NoPoolUtxo]
PoolReturned(cached, tx, oldCommit, newCommit, utxo) ==
    [threw |-> FALSE, cached |-> cached, tx |-> tx, oldCommit |-> oldCommit,
     newCommit |-> newCommit, utxo |-> utxo]

\* fundPoolHashFoldUtxo(alice, network, {version})
FundPoolHashFoldUtxo(alicePriv, baseUtxo, rate, version, cached, casmOk, networkOk) ==
    LET fee == FeeFor(FundSize, rate) + PoolFeePad
        change == baseUtxo.value - PoolCovenantValue - fee
        tokenCategory == ReverseBytes(baseUtxo.txid)
        oldCommit == Fill(HashLen, 0)
        code == GetPoolHashFoldBytecode(cached, version, casmOk)
        spk == IF version = POOL_HASH_FOLD_VERSION.V0 THEN code.bytes
               ELSE AddTokenToScript(tokenCategory, oldCommit, code.bytes)
        tx == [inputs |-> << [txid |-> baseUtxo.txid, vout |-> baseUtxo.vout,
                              scriptSig |-> << >>] >>,
               outputs |-> << [value |-> PoolCovenantValue, scriptPubKey |-> spk],
                              [value |-> change,
                               scriptPubKey |->
                                   GetP2PKHScript(Hash160(GetPublicKey(alicePriv)))] >>]
    IN  IF change < DUST THEN PoolThrew(cached)
        ELSE IF version \notin { POOL_HASH_FOLD_VERSION.V0, POOL_HASH_FOLD_VERSION.V1 }
        THEN PoolThrew(cached)
        ELSE IF code.threw THEN PoolThrew(cached)
        ELSE IF ~networkOk THEN PoolThrew(code.cached)
        ELSE PoolReturned(code.cached, tx, << >>, << >>,
                 [txid |-> PoolTxid(tx), vout |-> 0, value |-> PoolCovenantValue,
                  version |-> version,
                  tokenCategory |-> IF version = POOL_HASH_FOLD_VERSION.V1
                                    THEN Some(tokenCategory) ELSE Null,
                  oldCommit |-> IF version = POOL_HASH_FOLD_VERSION.V1
                                THEN Some(oldCommit) ELSE Null])

\* a next covenant UTXO that keeps the commitment of the UTXO just spent
NextCovenantUtxoStale(covenantUtxo, txid, newValue, newCommit) ==
    [txid |-> txid, vout |-> 0, value |-> newValue, version |-> POOL_HASH_FOLD_VERSION.V1,
     tokenCategory |-> covenantUtxo.tokenCategory, oldCommit |-> covenantUtxo.oldCommit]

\* nextCovenantUtxo: output 0 of the spend, with the new commitment as its state
NextCovenantUtxo(covenantUtxo, txid, newValue, newCommit) ==
    [txid |-> txid, vout |-> 0, value |-> newValue, version |-> POOL_HASH_FOLD_VERSION.V1,
     tokenCategory |-> covenantUtxo.tokenCategory, oldCommit |-> Some(newCommit)]

\* spendPoolHashFoldUtxo(alice, covenantUtxo, network, {version, limbs})
SpendPoolHashFoldUtxo(alicePriv, covenantUtxo, version, limbValues, cached, casmOk, networkOk) ==
    LET u == BuildPoolHashFoldUnlockingV1(limbValues, NoteHash32(limbValues))
        newValue == covenantUtxo.value - PoolSpendFee
        oldCommit == covenantUtxo.oldCommit.bytes
        newCommit == ComputePoolHashFold(oldCommit, u.limbs)
        code == GetPoolHashFoldBytecode(cached, POOL_HASH_FOLD_VERSION.V1, casmOk)
        spk == AddTokenToScript(covenantUtxo.tokenCategory.bytes, newCommit, code.bytes)
        tx == [inputs |-> << [txid |-> covenantUtxo.txid, vout |-> covenantUtxo.vout,
                              scriptSig |-> u.unlocking] >>,
               outputs |-> << [value |-> newValue, scriptPubKey |-> spk] >>]
        tx0 == [inputs |-> << [txid |-> covenantUtxo.txid, vout |-> covenantUtxo.vout,
                               scriptSig |-> BuildPoolHashFoldUnlockingV0] >>,
                outputs |-> << [value |-> newValue,
                                scriptPubKey |->
                                    GetP2PKHScript(Hash160(GetPublicKey(alicePriv)))] >>]
    IN  IF version = POOL_HASH_FOLD_VERSION.V0
        THEN IF newValue < DUST \/ ~networkOk THEN PoolThrew(cached)
             ELSE PoolReturned(cached, tx0, << >>, << >>, NoPoolUtxo)
        ELSE IF version # POOL_HASH_FOLD_VERSION.V1 THEN PoolThrew(cached)
        ELSE IF ~covenantUtxo.tokenCategory.present \/ ~covenantUtxo.oldCommit.present
        THEN PoolThrew(cached)
        ELSE IF u.threw THEN PoolThrew(cached)
        ELSE IF newValue < DUST THEN PoolThrew(cached)
        ELSE IF code.threw THEN PoolThrew(cached)
        ELSE IF ParsedCommitment(spk, Len(covenantUtxo.tokenCategory.bytes)) # Some(newCommit)
        THEN PoolThrew(code.cached)
        ELSE IF ~networkOk THEN PoolThrew(code.cached)
        ELSE PoolReturned(code.cached, tx, oldCommit, newCommit,
                          NextCovenantUtxo(covenantUtxo, PoolTxid(tx), newValue, newCommit))

(***************************************************************************)
(* demoPoolHashFold: the funding, then one spend per limb sequence         *)
(***************************************************************************)
PoolLimbLists == { << 1, 2, 3 >>, << 4 >>, << 17 >> }
RECURSIVE PoolSequencesOfLen(_)
PoolSequencesOfLen(k) ==
    IF k = 0 THEN { << >> }
    ELSE { Append(s, l) : s \in PoolSequencesOfLen(k - 1), l \in PoolLimbLists }
PoolSequences == UNION { PoolSequencesOfLen(k) : k \in 0..MaxSpends }

NothingCached == [v \in PoolVersions |-> Null]

PoolInit ==
    /\ ZkIdle
    /\ rpa = IdleRpa
    /\ flow = IdleFlow
    /\ chain = NoChain
    /\ codec = IdleCodec
    /\ pair = IdlePair
    /\ script = IdleScript
    /\ ped = IdlePed
    /\ psbt = IdlePsbt
    /\ plan = IdlePlan
    /\ \E version \in PoolVersions, sequences \in PoolSequences, casmOk \in BOOLEAN,
          rate \in 1..MaxRate :
          pool = [pc |-> "fund", version |-> version, sequences |-> sequences,
                  casmOk |-> casmOk, rate |-> rate, alice |-> 1,
                  baseUtxo |-> [txid |-> << 1, 2 >>, vout |-> 0,
                                value |-> PoolCovenantValue + PoolFeePad + 2],
                  cached |-> NothingCached, funding |-> NoPoolUtxo, covenant |-> NoPoolUtxo,
                  txs |-> << >>, updates |-> << >>]

\* let covenant = await fundPoolHashFoldUtxo(alice, network, { version })
PoolFund ==
    /\ pool.pc = "fund"
    /\ \E networkOk \in BOOLEAN :
          LET r == FundPoolHashFoldUtxo(pool.alice, pool.baseUtxo, pool.rate, pool.version,
                                        pool.cached, pool.casmOk, networkOk)
          IN  pool' = IF r.threw THEN [pool EXCEPT !.pc = "aborted", !.cached = r.cached]
                      ELSE [pool EXCEPT !.pc = "spend", !.cached = r.cached,
                                        !.funding = r.utxo, !.covenant = r.utxo,
                                        !.txs = << r.tx >>]
    /\ UNCHANGED <<zkVars, rpa, flow, chain, codec, pair, script, ped, psbt, plan>>

\* version v0: the one spend of the bare script
PoolSpendV0 ==
    /\ pool.pc = "spend"
    /\ pool.version = POOL_HASH_FOLD_VERSION.V0
    /\ \E networkOk \in BOOLEAN :
          LET r == SpendPoolHashFoldUtxo(pool.alice, pool.covenant, pool.version, << 1, 2, 3 >>,
                                         pool.cached, pool.casmOk, networkOk)
          IN  pool' = IF r.threw THEN [pool EXCEPT !.pc = "aborted"]
                      ELSE [pool EXCEPT !.pc = "done", !.txs = Append(@, r.tx)]
    /\ UNCHANGED <<zkVars, rpa, flow, chain, codec, pair, script, ped, psbt, plan>>

\* version v1, one turn of the loop: the spend with the next limb sequence,
\* the update noted, the baton passed (covenant = res.nextCovenantUtxo)
PoolSpendV1 ==
    /\ pool.pc = "spend"
    /\ pool.version # POOL_HASH_FOLD_VERSION.V0
    /\ Len(pool.updates) < Len(pool.sequences)
    /\ \E networkOk \in BOOLEAN :
          LET r == SpendPoolHashFoldUtxo(pool.alice, pool.covenant, pool.version,
                                         pool.sequences[Len(pool.updates) + 1],
                                         pool.cached, pool.casmOk, networkOk)
          IN  pool' = IF r.threw THEN [pool EXCEPT !.pc = "aborted", !.cached = r.cached]
                      ELSE [pool EXCEPT !.cached = r.cached, !.covenant = r.utxo,
                                        !.txs = Append(@, r.tx),
                                        !.updates = Append(@, [txid |-> r.utxo.txid,
                                                               oldCommit |-> r.oldCommit,
                                                               newCommit |-> r.newCommit])]
    /\ UNCHANGED <<zkVars, rpa, flow, chain, codec, pair, script, ped, psbt, plan>>

\* the loop is over
PoolDone ==
    /\ pool.pc = "spend"
    /\ pool.version # POOL_HASH_FOLD_VERSION.V0
    /\ Len(pool.updates) = Len(pool.sequences)
    /\ pool' = [pool EXCEPT !.pc = "done"]
    /\ UNCHANGED <<zkVars, rpa, flow, chain, codec, pair, script, ped, psbt, plan>>

PoolNext ==
    \/ PoolFund
    \/ PoolSpendV0
    \/ PoolSpendV1
    \/ PoolDone

SpecPool == PoolInit /\ [][PoolNext]_vars

\* the limbs spendPoolHashFoldUtxo folds for one sequence of limb values
LimbsOf(limbValues) == BuildPoolHashFoldUnlockingV1(limbValues, NoteHash32(limbValues)).limbs

\* k applications of computePoolHashFold to the zero commitment, one per limb
\* sequence, in order
RECURSIVE FoldedState(_, _)
FoldedState(sequences, k) ==
    IF k = 0 THEN Fill(HashLen, 0)
    ELSE ComputePoolHashFold(FoldedState(sequences, k - 1), LimbsOf(sequences[k]))

\* C28: in the pool hash-fold v1 flow, after any number k of successive
\* spends the covenant UTXO handed to the next spend is output 0 of the
\* previous spend's transaction (of the funding transaction for k = 0), every
\* spend consumes the UTXO the spend before it created, the recorded oldCommit
\* equals the newCommit written to that output, and the commitment equals k
\* successive applications of computePoolHashFold to 32 zero bytes.
C28_BatonIsFoldedState ==
    (pool.pc \in {"spend", "done"} /\ pool.version = POOL_HASH_FOLD_VERSION.V1) =>
        LET k == Len(pool.updates)
            last == pool.txs[k + 1]
        IN  /\ Len(pool.txs) = k + 1
            /\ pool.covenant.txid = PoolTxid(last)
            /\ pool.covenant.vout = 0
            /\ pool.covenant.value = last.outputs[1].value
            /\ pool.covenant.oldCommit =
                  ParsedCommitment(last.outputs[1].scriptPubKey, Len(pool.baseUtxo.txid))
            /\ pool.covenant.oldCommit = Some(FoldedState(pool.sequences, k))
            /\ \A i \in 1..k :
                  /\ pool.txs[i + 1].inputs[1].txid = PoolTxid(pool.txs[i])
                  /\ pool.txs[i + 1].inputs[1].vout = 0
                  /\ pool.updates[i].oldCommit = FoldedState(pool.sequences, i - 1)
                  /\ pool.updates[i].newCommit = FoldedState(pool.sequences, i)
                  /\ pool.updates[i].txid = PoolTxid(pool.txs[i + 1])

\* three successive spends with limb sequences that are not all the same were
\* broadcast and the baton is ready for a fourth
C28_Witness ==
    /\ pool.pc = "spend"
    /\ pool.version = POOL_HASH_FOLD_VERSION.V1
    /\ Len(pool.updates) = 3
    /\ pool.sequences[1] # pool.sequences[2]
    /\ pool.covenant.oldCommit = Some(pool.updates[3].newCommit)
    /\ pool.updates[3].newCommit # pool.updates[2].newCommit


(***************************************************************************)
(* getPoolHashFoldBytecode, called by several callers at once: every await *)
(* is a point at which another caller may run                              *)
(***************************************************************************)
MaxCallers == 3         \* callers of getPoolHashFoldBytecode: 1..MaxCallers

\* a compiled script: its bytes, and which compilation made the array
NoObject == [present |-> FALSE, bytes |-> << >>, id |-> 0]
IdleCaller == [pc |-> "idle", version |-> "none", pending |-> NoObject, result |-> NoObject]

CompileInit ==
    /\ ZkIdle
    /\ rpa = IdleRpa
    /\ flow = IdleFlow
    /\ chain = NoChain
    /\ codec = IdleCodec
    /\ pair = IdlePair
    /\ script = IdleScript
    /\ ped = IdlePed
    /\ psbt = IdlePsbt
    /\ plan = IdlePlan
    /\ \E broken \in { {}, { POOL_HASH_FOLD_VERSION.V1_1 } } :
          pool = [pc |-> "calls", broken |-> broken,
                  cached |-> [v \in PoolVersions |-> NoObject],
                  modulePromise |-> FALSE, imports |-> 0,
                  compiled |-> [v \in PoolVersions |-> 0], objects |-> 0,
                  callers |-> [c \in 1..MaxCallers |-> IdleCaller]]

\* getPoolHashFoldBytecode(version) up to its first await: an unknown version
\* throws, a cached script is returned, otherwise compileCasm starts and waits
\* for getLibauth(), which imports the module unless a caller already did
BytecodeCall(c, version) ==
    /\ pool.pc = "calls"
    /\ pool.callers[c].pc = "idle"
    /\ pool' =
          IF version \notin PoolVersions
          THEN [pool EXCEPT !.callers[c] = [@ EXCEPT !.pc = "threw", !.version = version]]
          ELSE IF pool.cached[version].present
          THEN [pool EXCEPT !.callers[c] = [@ EXCEPT !.pc = "returned", !.version = version,
                                                     !.result = pool.cached[version]]]
          ELSE [pool EXCEPT !.callers[c] = [@ EXCEPT !.pc = "awaitLibauth",
                                                     !.version = version],
                            !.modulePromise = TRUE,
                            !.imports = IF pool.modulePromise THEN @ ELSE @ + 1]
    /\ UNCHANGED <<zkVars, rpa, flow, chain, codec, pair, script, ped, psbt, plan>>

\* compileCasm after await getLibauth(): cashAssemblyToBin runs and gives a
\* new array, or an error string and compileCasm throws
BytecodeCompile(c) ==
    /\ pool.pc = "calls"
    /\ pool.callers[c].pc = "awaitLibauth"
    /\ LET version == pool.callers[c].version
       IN  pool' =
              IF version \in pool.broken
              THEN [pool EXCEPT !.compiled[version] = @ + 1, !.callers[c].pc = "threw"]
              ELSE [pool EXCEPT !.compiled[version] = @ + 1, !.objects = @ + 1,
                                !.callers[c].pc = "awaitCompile",
                                !.callers[c].pending =
                                    [present |-> TRUE, bytes |-> CashAssemblyToBin(version),
                                     id |-> pool.objects + 1]]
    /\ UNCHANGED <<zkVars, rpa, flow, chain, codec, pair, script, ped, psbt, plan>>

\* cachedV = await compileCasm(...); return cachedV
BytecodeReturn(c) ==
    /\ pool.pc = "calls"
    /\ pool.callers[c].pc = "awaitCompile"
    /\ pool' = [pool EXCEPT !.cached[pool.callers[c].version] = pool.callers[c].pending,
                            !.callers[c].pc = "returned",
                            !.callers[c].result = pool.callers[c].pending]
    /\ UNCHANGED <<zkVars, rpa, flow, chain, codec, pair, script, ped, psbt, plan>>

CompileNext ==
    \/ \E c \in 1..MaxCallers, version \in PoolVersions \cup { "v2" } : BytecodeCall(c, version)
    \/ \E c \in 1..MaxCallers : BytecodeCompile(c)
    \/ \E c \in 1..MaxCallers : BytecodeReturn(c)

SpecCompile == CompileInit /\ [][CompileNext]_vars

\* C29: for each script version, interleaved calls of getPoolHashFoldBytecode
\* compile that version's script at most once, and all calls for a version
\* return the same bytecode.
C29_CompiledAtMostOnce ==
    pool.pc = "calls" =>
        /\ \A v \in PoolVersions : pool.compiled[v] <= 1
        /\ \A c1, c2 \in 1..MaxCallers :
              (/\ pool.callers[c1].pc = "returned"
               /\ pool.callers[c2].pc = "returned"
               /\ pool.callers[c1].version = pool.callers[c2].version) =>
                  pool.callers[c1].result.bytes = pool.callers[c2].result.bytes


====
